---- MODULE Spec2Model ----
(***************************************************************************)
(* Model of the viam-modules/audio microphone data path:                   *)
(*   - AudioBuffer: the lock-free circular sample buffer (audio_stream.hpp) *)
(*   - AudioCallback: the real-time producer (microphone.cpp)               *)
(*   - Microphone::get_audio: the chunked streaming loop (microphone.cpp)   *)
(*   - Microphone::reconfigure: the context swap (microphone.cpp)           *)
(*                                                                         *)
(* Two specifications share the state:                                     *)
(*   SpecRing  one AudioBuffer, one producer thread, independent readers,   *)
(*             every load and store of the buffer a step of its own;        *)
(*   Spec      the Microphone component: device stream callback, get_audio  *)
(*             sessions and reconfigure.                                    *)
(***************************************************************************)
EXTENDS Integers, Sequences, FiniteSets, TLC

(***************************************************************************)
(* Program constants                                                       *)
(***************************************************************************)
BUFFER_DURATION_SECONDS == 10

\* sizeof(int16_t)
BYTES_PER_SAMPLE == 2

PCM_16 == "pcm16"

\* CHUNK_DURATION_SECONDS = 0.1, kept as its reciprocal: x * 0.1 is x / 10
CHUNKS_PER_SECOND == 10

NANOSECONDS_PER_SECOND == 1000000000

\* a uint64_t is kept as U64Limbs digits of base LimbBase, lowest first, so
\* that its arithmetic wraps at 2^64 as the machine's does
LimbBase == 256
U64Limbs == 8

(***************************************************************************)
(* Bounds of the model                                                     *)
(***************************************************************************)
\* SpecRing: the buffer is built for RingRate Hz, mono, one second, so its
\* capacity is RingRate samples.
RingRate == 3
\* SpecRing: the producer stops after MaxWritten samples (more than capacity).
MaxWritten == 5
\* SpecRing: a reader asks for at most MaxCount samples per call.
MaxCount == 4
Readers == {1, 2}
\* SpecAnchor: the callback invocations that may overlap, how many are made,
\* and the device and wall clock times they may see
Invocations == {1, 2}
MaxInvocations == 3
AnchorAdcTimes == {5, 6}
AnchorWallClock == {1000, 1001}
\* SpecDeinterleave: the longest input and the sample values
MaxInterleaved == 5
InterleavedSamples == {-32768, 0, 32767}
\* SpecDrain: the consumer reads at most DrainChunk samples per call
DrainChunk == 2

\* Spec: the get_audio sessions that may run concurrently
Sessions == {1}
\* SpecShared: the sessions that share the device
SharedSessions == {1, 2}
\* Spec: reconfigure is called at most MaxReconfigures times
MaxReconfigures == 1
\* Spec: the device delivers at most MaxCaptured samples to one context
MaxCaptured == 2
\* Spec: the frame counts a callback may carry
FrameCounts == {1, 2}
\* Spec: the configurations the component is built and reconfigured with
DeviceNames == {"mic"}
SampleRates == {10, 20}
ChannelCounts == {1}
Latencies == {0}
\* SpecConfig: the configurations the component is built with, and the
\* number of samples the device delivers at most
ConfigRates == {5, 10, 15}
ConfigChannels == {1, 2}
ConfigCaptured == 4
\* get_audio is not called once active_streams_ has reached MaxActiveStreams
\* (a call that throws on its chunk size leaves the counter incremented)
MaxActiveStreams == 2
\* Spec: the arguments of get_audio
Codecs == {PCM_16, "mp3"}
Durations == {0, 1}
\* Spec: readings of system_clock::now() and of inputBufferAdcTime at the anchor
WallClock == {1000}
AdcTimes == {5}

\* SpecSlow: the sample rate of the mono stream, the frames of the first
\* callback, the number of samples the device delivers beyond the capacity of
\* the buffer, and the number of chunks the consumer takes
SlowRate == 10
SlowFirst == 1
SlowExtra == 2
MaxSlowChunks == 2
\* SpecTimestamp: the contexts calculate_sample_timestamp is evaluated on, and
\* the sample numbers TimestampDigit * 2^(8 * TimestampShift) it is given
TimestampRates == {3, 10, 20}
TimestampChannels == {1, 2}
TimestampStarts == {0, 1000}
TimestampDigits == {0, 1, 3, 4, 6, 8, 10, 20, 40}
TimestampShifts == {0, 4}
\* the digits kept by the arithmetic that does not wrap
WideLimbs == 12

\* SpecMp3: the calls made on one encoder context, and their inputs
MaxEncoderOps == 4
Mp3SampleRate == 48000
Mp3Channels == {1, 2}
EncodeCounts == {0, 1, 1151, 1152, 2305}
\* how a codec call ends: the call of an operation that fails (0: none) and the
\* bytes a successful call produces
CodecOutcomes == {[fail_at |-> 0, bytes |-> 0], [fail_at |-> 0, bytes |-> 417],
                  [fail_at |-> 1, bytes |-> 417]}
FlushResults == {-1, 0, 417}
LameInitOutcomes == {"ok", "lame_init failed", "lame_init_params failed"}

Min(a, b) == IF a < b THEN a ELSE b

VARIABLES
    contexts,          \* context id -> InputStreamContext object
    hist,              \* ghost: context id -> the values written so far, in write order
    wr,                \* the producer thread: position inside AudioCallback / write_sample
    rd,                \* SpecRing: reader -> position inside read_samples and its locals
    device,            \* Microphone configuration fields
    audio_context_,    \* Microphone::audio_context_ (a context id, 0 = null)
    stream_,           \* Microphone::stream_ : the device stream and its user data
    active_streams_,   \* Microphone::active_streams_
    sess,              \* get_audio session -> position inside get_audio and its locals
    delivered,         \* ghost: session -> the chunks handed to its handler, in order
    reconf,            \* ghost: the number of reconfigure calls so far
    ts,                \* SpecTimestamp: one evaluation of calculate_sample_timestamp
    enc,               \* SpecMp3: the MP3EncoderContext and the calls made on the codec
    stream_ctx_mu_     \* Microphone::stream_ctx_mu_: the thread that holds the mutex

vars == <<contexts, hist, wr, rd, device, audio_context_, stream_,
          active_streams_, sess, delivered, reconf, ts, enc, stream_ctx_mu_>>

micVars == <<device, audio_context_, stream_, active_streams_, sess, delivered, reconf>>

(***************************************************************************)
(* AudioBuffer / InputStreamContext                                        *)
(***************************************************************************)
\* AudioBuffer::AudioBuffer: capacity = sample_rate * channels * duration
BufferCapacity(info, buffer_duration_seconds) ==
    info.sample_rate_hz * info.num_channels * buffer_duration_seconds

\* InputStreamContext::InputStreamContext
NewContext(info, samples_per_chunk, buffer_duration_seconds) ==
    [ info                    |-> info,
      samples_per_chunk       |-> samples_per_chunk,
      buffer_capacity         |-> BufferCapacity(info, buffer_duration_seconds),
      audio_buffer            |-> [i \in 0 .. (BufferCapacity(info, buffer_duration_seconds) - 1) |-> 0],
      total_samples_written   |-> 0,
      stream_start_time       |-> 0,
      first_sample_adc_time   |-> 0,
      first_callback_captured |-> FALSE ]

\* AudioBuffer::get_write_position
get_write_position(ctx) == ctx.total_samples_written

\* AudioBuffer::write_sample, first step: the slot the sample goes to
WriteSlot(ctx) == ctx.total_samples_written % ctx.buffer_capacity

\* AudioBuffer::write_sample, first step: store the sample
StoreSample(ctx, sample) ==
    [ctx EXCEPT !.audio_buffer[WriteSlot(ctx)] = sample]

\* mutant: the write position runs ahead of the stored samples
PublishTwoSamples(ctx) ==
    [ctx EXCEPT !.total_samples_written = @ + 2]

\* AudioBuffer::write_sample, second step: publish it
PublishSample(ctx) ==
    [ctx EXCEPT !.total_samples_written = @ + 1]

\* mutant: a stale cursor is left where it is
ClampPositionNever(w, capacity, position) == position

\* AudioBuffer::read_samples: a cursor older than the oldest retained sample
\* is moved up to it
ClampPosition(w, capacity, position) ==
    IF w > position + capacity THEN w - capacity ELSE position

\* mutant: the call copies as many samples as were asked for
SamplesToReadAll(w, position, sample_count) == sample_count

\* AudioBuffer::read_samples: how many samples the call copies
SamplesToRead(w, position, sample_count) ==
    Min(sample_count, w - position)

\* mutant: the load is taken one slot too far
LoadSampleNextSlot(ctx, position) ==
    ctx.audio_buffer[(position + 1) % ctx.buffer_capacity]

\* AudioBuffer::read_samples: the load of one sample
LoadSample(ctx, position) ==
    ctx.audio_buffer[position % ctx.buffer_capacity]

(***************************************************************************)
(* Unsigned arithmetic of a fixed width                                    *)
(***************************************************************************)
RECURSIVE Limbs(_, _)
\* the number n < 2^31 in width digits
Limbs(n, width) ==
    IF width = 0 THEN << >> ELSE <<n % LimbBase>> \o Limbs(n \div LimbBase, width - 1)

\* a number brought to width digits: high digits cut off or zeros added
ResizeLimbs(a, width) == [i \in 1 .. width |-> IF i <= Len(a) THEN a[i] ELSE 0]

\* a * LimbBase^k, in the width of a
ShiftLimbs(a, k) == [i \in 1 .. Len(a) |-> IF i <= k THEN 0 ELSE a[i - k]]

RECURSIVE AddLimbsFrom(_, _, _, _)
AddLimbsFrom(a, b, i, carry) ==
    IF i > Len(a) THEN << >>
    ELSE LET cur == a[i] + b[i] + carry
         IN  <<cur % LimbBase>> \o AddLimbsFrom(a, b, i + 1, cur \div LimbBase)

\* a + b in the width of a; the carry out of the top digit is lost
AddLimbs(a, b) == AddLimbsFrom(a, b, 1, 0)

RECURSIVE MulDigitFrom(_, _, _, _)
MulDigitFrom(a, digit, i, carry) ==
    IF i > Len(a) THEN << >>
    ELSE LET cur == a[i] * digit + carry
         IN  <<cur % LimbBase>> \o MulDigitFrom(a, digit, i + 1, cur \div LimbBase)

\* the value of e, where e is a set of one element: the intermediate results
\* of the arithmetic are bound as values, each computed once
The(e) == CHOOSE v \in e : TRUE

RECURSIVE MulLimbsFrom(_, _, _)
MulLimbsFrom(a, b, j) ==
    IF j > Len(b) THEN ResizeLimbs(<< >>, Len(a))
    ELSE The({AddLimbs(partial, rest) :
                partial \in {ShiftLimbs(MulDigitFrom(a, b[j], 1, 0), j - 1)},
                rest \in {MulLimbsFrom(a, b, j + 1)}})

\* a * b in the width of a; the digits above the top one are lost
MulLimbs(a, b) == MulLimbsFrom(a, b, 1)

RECURSIVE DivLimbsFrom(_, _, _, _)
DivLimbsFrom(a, d, i, rem) ==
    IF i = 0 THEN << >>
    ELSE LET cur == rem * LimbBase + a[i]
         IN  DivLimbsFrom(a, d, i - 1, cur % d) \o <<cur \div d>>

\* a / d rounded down, for a divisor 0 < d < 2^23
DivLimbs(a, d) == DivLimbsFrom(a, d, Len(a), 0)

(***************************************************************************)
(* InputStreamContext::calculate_sample_timestamp                          *)
(***************************************************************************)
\* frame_number = sample_number / num_channels;
\* elapsed_ns = (frame_number * NANOSECONDS_PER_SECOND) / sample_rate_hz;
\* stream_start_time + elapsed_ns; all in numbers of width digits
SampleTimestamp(ctx, sample_number, width) ==
    The({AddLimbs(stream_start_time, elapsed_ns) :
           stream_start_time \in {Limbs(ctx.stream_start_time, width)},
           elapsed_ns \in
             {DivLimbs(product, ctx.info.sample_rate_hz) :
                product \in
                  {MulLimbs(frame_number, per_second) :
                     per_second \in {Limbs(NANOSECONDS_PER_SECOND, width)},
                     frame_number \in
                       {DivLimbs(number, ctx.info.num_channels) :
                          number \in {ResizeLimbs(sample_number, width)}}}}})

\* the function as compiled: uint64_t arithmetic
calculate_sample_timestamp(ctx, sample_number) ==
    SampleTimestamp(ctx, sample_number, U64Limbs)

(***************************************************************************)
(* The producer thread                                                     *)
(***************************************************************************)
WriterIdle == [ctx |-> 0, pending |-> << >>, stored |-> FALSE]

\* write_sample, store step, of the next pending sample
WriteStore ==
    /\ wr.pending # << >>
    /\ ~wr.stored
    /\ contexts' = [contexts EXCEPT ![wr.ctx] = StoreSample(@, Head(wr.pending))]
    /\ hist' = [hist EXCEPT ![wr.ctx] = Append(@, Head(wr.pending))]
    /\ wr' = [wr EXCEPT !.stored = TRUE]
    /\ UNCHANGED <<rd, micVars, ts, enc, stream_ctx_mu_>>

\* write_sample, increment step; the callback returns after its last sample
WritePublish ==
    /\ wr.stored
    /\ contexts' = [contexts EXCEPT ![wr.ctx] = PublishSample(@)]
    /\ wr' = IF Len(wr.pending) = 1
                THEN WriterIdle
                ELSE [wr EXCEPT !.pending = Tail(@), !.stored = FALSE]
    /\ UNCHANGED <<hist, rd, micVars, ts, enc, stream_ctx_mu_>>

(***************************************************************************)
(* SpecRing: a producer thread and independent readers on one buffer       *)
(***************************************************************************)
RingCtx == 1

ReaderIdle ==
    [pc |-> "idle", position |-> 0, sample_count |-> 0, start |-> 0, first |-> 0,
     w |-> 0, to_read |-> 0, buffer |-> << >>]

\* the producer thread of the tests writes a ramp, write_sample(i); the model's
\* ramp starts at 1 so that no sample equals the zero of an unwritten slot
ProducerSample(n) == n + 1

\* the producer calls write_sample(sample)
ProducerWrite(sample) ==
    /\ wr.pending = << >>
    /\ Len(hist[RingCtx]) < MaxWritten
    /\ wr' = [ctx |-> RingCtx, pending |-> <<sample>>, stored |-> FALSE]
    /\ UNCHANGED <<contexts, hist, rd, micVars, ts, enc, stream_ctx_mu_>>

\* read_samples(buffer, sample_count, position): snapshot the write position,
\* clamp the cursor, size the copy
ReadBegin(r, sample_count) ==
    /\ rd[r].pc \in {"idle", "done"}
    /\ LET ctx      == contexts[RingCtx]
           w        == get_write_position(ctx)
           position == ClampPosition(w, ctx.buffer_capacity, rd[r].position)
           to_read  == SamplesToRead(w, position, sample_count)
       IN  rd' = [rd EXCEPT ![r] =
                    [pc           |-> IF to_read = 0 THEN "done" ELSE "copy",
                     position     |-> position,
                     sample_count |-> sample_count,
                     start        |-> rd[r].position,
                     first        |-> position,
                     w            |-> w,
                     to_read      |-> to_read,
                     buffer       |-> << >>]]
    /\ UNCHANGED <<contexts, hist, wr, micVars, ts, enc, stream_ctx_mu_>>

\* mutant: a read consumes the slot it copies
ReadCopyConsume(r) ==
    /\ rd[r].pc = "copy"
    /\ LET sample == LoadSample(contexts[RingCtx], rd[r].position)
           copied == Append(rd[r].buffer, sample)
       IN  /\ rd' = [rd EXCEPT ![r].buffer = copied,
                               ![r].position = @ + 1,
                               ![r].pc = IF Len(copied) = rd[r].to_read THEN "done" ELSE "copy"]
           /\ contexts' = [contexts EXCEPT
                  ![RingCtx].audio_buffer[rd[r].position % contexts[RingCtx].buffer_capacity] = 0]
    /\ UNCHANGED <<hist, wr, micVars, ts, enc, stream_ctx_mu_>>

\* read_samples: copy one sample and advance the cursor
ReadCopy(r) ==
    /\ rd[r].pc = "copy"
    /\ LET sample == LoadSample(contexts[RingCtx], rd[r].position)
           copied == Append(rd[r].buffer, sample)
       IN  rd' = [rd EXCEPT ![r].buffer = copied,
                            ![r].position = @ + 1,
                            ![r].pc = IF Len(copied) = rd[r].to_read THEN "done" ELSE "copy"]
    /\ UNCHANGED <<contexts, hist, wr, micVars, ts, enc, stream_ctx_mu_>>

\* no device stream; ghost: the input of the latest callback of the stream
\* ("none", "null" or "data") and the value it returned
NoStream ==
    [running |-> FALSE, user_data |-> 0, callback_input |-> "none", callback_result |-> "none"]

\* no thread holds stream_ctx_mu_
Unlocked == "none"

\* no timestamp evaluated, no encoder context
TimestampNone == [pc |-> "none"]
EncoderNone == [pc |-> "none"]

InitMicNone ==
    /\ device = [device_name_ |-> "none", device_index_ |-> 0, sample_rate_ |-> 0,
                 num_channels_ |-> 0, latency_ |-> 0]
    /\ audio_context_ = 0
    /\ stream_ = NoStream
    /\ active_streams_ = 0
    /\ sess = << >>
    /\ delivered = << >>
    /\ reconf = 0

InitRing ==
    /\ contexts = <<NewContext([codec |-> PCM_16, sample_rate_hz |-> RingRate,
                             num_channels |-> 1], 1, 1)>>
    /\ hist = << << >> >>
    /\ wr = WriterIdle
    /\ rd = [r \in Readers |-> ReaderIdle]
    /\ InitMicNone
    /\ ts = TimestampNone
    /\ enc = EncoderNone
    /\ stream_ctx_mu_ = Unlocked

NextRing ==
    \/ ProducerWrite(ProducerSample(Len(hist[RingCtx])))
    \/ WriteStore
    \/ WritePublish
    \/ \E r \in Readers, sample_count \in 0 .. MaxCount : ReadBegin(r, sample_count)
    \/ \E r \in Readers : ReadCopy(r)

SpecRing == InitRing /\ [][NextRing]_vars

(***************************************************************************)
(* SpecDrain: the producer writes total_samples <= capacity samples and    *)
(* stops; the consumer thread of ConcurrentWriteAndRead reads              *)
(* min(available, DrainChunk) samples at its cursor until it has drained   *)
(***************************************************************************)
DrainReader == 1

ConsumerIdle ==
    [pc |-> "loop", total_samples |-> 0, stop |-> FALSE, to_read |-> 0, read_total |-> 0]

InitDrain ==
    /\ contexts = <<NewContext([codec |-> PCM_16, sample_rate_hz |-> RingRate,
                             num_channels |-> 1], 1, 1)>>
    /\ hist = << << >> >>
    /\ wr = WriterIdle
    /\ rd = [r \in Readers |-> ReaderIdle]
    /\ device = [device_name_ |-> "none", device_index_ |-> 0, sample_rate_ |-> 0,
                 num_channels_ |-> 0, latency_ |-> 0]
    /\ audio_context_ = 0
    /\ stream_ = NoStream
    /\ active_streams_ = 0
    /\ \E total_samples \in 1 .. contexts[RingCtx].buffer_capacity :
          sess = <<[ConsumerIdle EXCEPT !.total_samples = total_samples]>>
    /\ delivered = << << >> >>
    /\ reconf = 0
    /\ ts = TimestampNone
    /\ enc = EncoderNone
    /\ stream_ctx_mu_ = Unlocked

\* the producer thread: write_sample(i) for i < total_samples
DrainProducerWrite ==
    /\ Len(hist[RingCtx]) < sess[DrainReader].total_samples
    /\ ProducerWrite(ProducerSample(Len(hist[RingCtx])))

\* the main thread: producer.join() has returned; stop = true
DrainStop ==
    /\ Len(hist[RingCtx]) = sess[DrainReader].total_samples
    /\ wr = WriterIdle
    /\ ~sess[DrainReader].stop
    /\ sess' = [sess EXCEPT ![DrainReader].stop = TRUE]
    /\ UNCHANGED <<contexts, hist, wr, rd, device, audio_context_, stream_,
                   active_streams_, delivered, reconf, ts, enc, stream_ctx_mu_>>

\* the consumer thread: while (!stop || my_read_pos < get_write_position())
ConsumerCondition ==
    /\ sess[DrainReader].pc = "loop"
    /\ sess' = [sess EXCEPT ![DrainReader].pc =
                  IF \/ ~sess[DrainReader].stop
                     \/ rd[DrainReader].position < get_write_position(contexts[RingCtx])
                    THEN "body" ELSE "joined"]
    /\ UNCHANGED <<contexts, hist, wr, rd, device, audio_context_, stream_,
                   active_streams_, delivered, reconf, ts, enc, stream_ctx_mu_>>

\* the consumer thread: available = write_pos - my_read_pos; read
\* min(available, DrainChunk) samples, or sleep when there is none
ConsumerBody ==
    /\ sess[DrainReader].pc = "body"
    /\ LET write_pos == get_write_position(contexts[RingCtx])
           available == write_pos - rd[DrainReader].position
       IN  sess' = [sess EXCEPT ![DrainReader] =
                      IF available > 0
                        THEN [@ EXCEPT !.pc = "call", !.to_read = Min(available, DrainChunk)]
                        ELSE [@ EXCEPT !.pc = "loop"]]
    /\ UNCHANGED <<contexts, hist, wr, rd, device, audio_context_, stream_,
                   active_streams_, delivered, reconf, ts, enc, stream_ctx_mu_>>

\* the consumer thread calls read_samples(buffer, to_read, my_read_pos)
ConsumerRead ==
    /\ sess[DrainReader].pc = "call"
    /\ rd[DrainReader].pc = "idle"
    /\ ReadBegin(DrainReader, sess[DrainReader].to_read)

\* read_samples has returned: read_total += samples_read
ConsumerCollect ==
    /\ sess[DrainReader].pc = "call"
    /\ rd[DrainReader].pc = "done"
    /\ sess' = [sess EXCEPT ![DrainReader].pc = "loop",
                            ![DrainReader].read_total = @ + Len(rd[DrainReader].buffer)]
    /\ delivered' = [delivered EXCEPT ![DrainReader] = Append(@, rd[DrainReader].buffer)]
    /\ rd' = [rd EXCEPT ![DrainReader].pc = "idle"]
    /\ UNCHANGED <<contexts, hist, wr, device, audio_context_, stream_,
                   active_streams_, reconf, ts, enc, stream_ctx_mu_>>

NextDrain ==
    \/ DrainProducerWrite
    \/ WriteStore
    \/ WritePublish
    \/ DrainStop
    \/ ConsumerCondition
    \/ ConsumerBody
    \/ ConsumerRead
    \/ ReadCopy(DrainReader)
    \/ ConsumerCollect

SpecDrain == InitDrain /\ [][NextDrain]_vars

(***************************************************************************)
(* Spec: the Microphone component                                          *)
(***************************************************************************)
\* what setupStreamFromConfig returns for a configuration
StreamParams ==
    [device_name : DeviceNames, device_index : {0}, sample_rate : SampleRates,
     num_channels : ChannelCounts, latency_seconds : Latencies]

\* vsdk::audio_info of a new context
AudioInfo(params) ==
    [codec |-> PCM_16, sample_rate_hz |-> params.sample_rate,
     num_channels |-> params.num_channels]

\* int samples_per_chunk = params.sample_rate * CHUNK_DURATION_SECONDS
ContextSamplesPerChunk(params) == params.sample_rate \div CHUNKS_PER_SECOND

\* the configuration fields assigned under the lock
DeviceFields(params) ==
    [device_name_  |-> params.device_name,
     device_index_ |-> params.device_index,
     sample_rate_  |-> params.sample_rate,
     num_channels_ |-> params.num_channels,
     latency_      |-> params.latency_seconds]

\* restart_stream(stream_, params, pa_): stop and close the running stream,
\* open one whose callback gets params.user_data, start it; a failing step
\* throws
RestartStream(stream, user_data, outcome) ==
    CASE outcome = "ok"          -> [NoStream EXCEPT !.running = TRUE, !.user_data = user_data]
      [] outcome = "stop_error"  -> stream
      [] outcome = "open_error"  -> NoStream
      [] outcome = "start_error" -> NoStream

ReconfigureOutcomes ==
    {"ok", "parse_error", "setup_error", "stop_error", "open_error", "start_error"}

\* the outcomes in which reconfigure throws before it builds the new context
FailsBeforeSwap(outcome) == outcome \in {"parse_error", "setup_error"}

\* Microphone::reconfigure
Reconfigure(params, outcome) ==
    /\ reconf < MaxReconfigures
    /\ reconf' = reconf + 1
    /\ IF FailsBeforeSwap(outcome)
         THEN UNCHANGED <<contexts, hist, wr, device, audio_context_, stream_>>
         ELSE LET new == Len(contexts) + 1
              IN  /\ wr = WriterIdle
                  /\ contexts' = Append(contexts,
                        NewContext(AudioInfo(params), ContextSamplesPerChunk(params),
                                   BUFFER_DURATION_SECONDS))
                  /\ hist' = Append(hist, << >>)
                  /\ device' = DeviceFields(params)
                  /\ audio_context_' = new
                  /\ stream_' = RestartStream(stream_, new, outcome)
                  /\ UNCHANGED wr
    /\ UNCHANGED <<rd, active_streams_, sess, delivered, ts, enc, stream_ctx_mu_>>

\* the input buffer of a callback on context c: frames * channels samples,
\* continuing the ramp the device has delivered to this context so far; the
\* ramp of context c starts at 100 * c + 1, so that no two contexts carry the
\* same sample
InputBuffer(c, written, frames) ==
    [i \in 1 .. (frames * contexts[c].info.num_channels) |-> 100 * c + written + i]

\* AudioCallback, first-callback branch: anchor the stream
CaptureAnchor(ctx, adc_time, now) ==
    IF ~ctx.first_callback_captured
      THEN [ctx EXCEPT !.first_sample_adc_time = adc_time,
                       !.stream_start_time = now,
                       !.first_callback_captured = TRUE]
      ELSE ctx

\* mutant: the null test comes after the first-callback branch
AudioCallbackNullAnchors ==
    /\ stream_.running
    /\ wr.pending = << >>
    /\ \E adc_time \in AdcTimes, now \in WallClock :
          contexts' = [contexts EXCEPT ![stream_.user_data] = CaptureAnchor(@, adc_time, now)]
    /\ stream_' = [stream_ EXCEPT !.callback_input = "null", !.callback_result = "paContinue"]
    /\ UNCHANGED <<hist, wr, rd, device, audio_context_, active_streams_, sess,
                   delivered, reconf, ts, enc, stream_ctx_mu_>>

\* AudioCallback with a null input buffer: return paContinue
AudioCallbackNull ==
    /\ stream_.running
    /\ wr.pending = << >>
    /\ stream_' = [stream_ EXCEPT !.callback_input = "null", !.callback_result = "paContinue"]
    /\ UNCHANGED <<contexts, hist, wr, rd, device, audio_context_, active_streams_, sess,
                   delivered, reconf, ts, enc, stream_ctx_mu_>>

\* AudioCallback with input: anchor on the first call, then write_sample for
\* each of framesPerBuffer * num_channels samples (WriteStore, WritePublish)
AudioCallbackWithin(limit, frames, adc_time, now) ==
    /\ stream_.running
    /\ wr.pending = << >>
    /\ LET c       == stream_.user_data
           written == Len(hist[c])
           input   == InputBuffer(c, written, frames)
       IN  /\ written + Len(input) <= limit
           /\ contexts' = [contexts EXCEPT ![c] = CaptureAnchor(@, adc_time, now)]
           /\ wr' = [ctx |-> c, pending |-> input, stored |-> FALSE]
    /\ stream_' = [stream_ EXCEPT !.callback_input = "data", !.callback_result = "paContinue"]
    /\ UNCHANGED <<hist, rd, device, audio_context_, active_streams_, sess,
                   delivered, reconf, ts, enc, stream_ctx_mu_>>

\* Spec: the device delivers at most MaxCaptured samples to one context
AudioCallback(frames, adc_time, now) ==
    AudioCallbackWithin(MaxCaptured, frames, adc_time, now)

(***************************************************************************)
(* Microphone::get_audio                                                   *)
(***************************************************************************)
SessionIdle ==
    [pc |-> "idle", again |-> FALSE, outcome |-> "none",
     codec |-> "", duration_seconds |-> 0,
     sequence |-> 0, stream_context |-> 0, read_position |-> 0,
     stream_sample_rate |-> 0, stream_num_channels |-> 0, samples_per_chunk |-> 0,
     timer_started |-> FALSE, expired |-> FALSE,
     chunk_start_position |-> 0, to_read |-> 0, temp_buffer |-> << >>,
     \* ghost: again and outcome tell whether get_audio was called before on
     \* this thread and how the latest call ended;
     \* the live context seen by the latest poll, the write position
     \* of the bound context when the session bound to it, the number of
     \* bindings and of chunks delivered since the latest one, and the
     \* context each sample of temp_buffer was loaded from
     seen_context |-> 0, bind_position |-> 0, binds |-> 0, since_bind |-> 0,
     sources |-> << >>]

\* mutant: the session keeps a plain pointer to its context
SessionOwnsNothing(sn) == 0

\* std::shared_ptr<audio::AudioStreamContext> stream_context: the context the
\* session shares the ownership of (0: none)
SessionOwns(sn) == sn.stream_context

\* a context lives as long as audio_context_ or a session's stream_context
\* holds it
ContextAlive(c) ==
    \/ audio_context_ = c
    \/ \E s \in DOMAIN sess : SessionOwns(sess[s]) = c

\* the session has left get_audio: its locals are gone
Leave(sn, outcome) ==
    [SessionIdle EXCEPT !.again = sn.again, !.outcome = outcome]

\* samples_per_chunk = (stream_sample_rate * CHUNK_DURATION_SECONDS) * stream_num_channels,
\* converted to int
SamplesPerChunk(sample_rate, num_channels) ==
    (sample_rate * num_channels) \div CHUNKS_PER_SECOND

\* mutant: every codec is let through
CodecSupportedAny(codec) == TRUE

\* codec != vsdk::audio_codecs::PCM_16 is rejected
CodecSupported(codec) == codec = PCM_16

\* get_audio, entry: reject an unsupported codec, else count the session in
GetAudio(s, codec, duration_seconds) ==
    /\ sess[s].pc = "idle"
    /\ active_streams_ < MaxActiveStreams
    /\ delivered' = [delivered EXCEPT ![s] = << >>]
    /\ IF ~CodecSupported(codec)
         THEN /\ sess' = [sess EXCEPT ![s] =
                            [SessionIdle EXCEPT !.again = (sess[s].outcome # "none"),
                                                !.outcome = "invalid_argument"]]
              /\ UNCHANGED active_streams_
         ELSE /\ sess' = [sess EXCEPT ![s] =
                            [SessionIdle EXCEPT !.pc = "init_context",
                                                !.again = (sess[s].outcome # "none"),
                                                !.outcome = "running",
                                                !.codec = codec,
                                                !.duration_seconds = duration_seconds]]
              /\ active_streams_' = active_streams_ + 1
    /\ UNCHANGED <<contexts, hist, wr, rd, device, audio_context_, stream_, reconf, ts, enc, stream_ctx_mu_>>

\* mutant: the session starts from the oldest sample
InitialPositionZero(ctx) == 0

\* read_position = audio_context_->get_write_position()
InitialPosition(ctx) == get_write_position(ctx)

\* get_audio: bind to the live context at its current write position
InitReadPosition(s) ==
    /\ sess[s].pc = "init_context"
    /\ sess' = [sess EXCEPT ![s] =
                  IF audio_context_ # 0
                    THEN [@ EXCEPT !.pc = "init_rate",
                                   !.read_position = InitialPosition(contexts[audio_context_]),
                                   !.stream_context = audio_context_,
                                   !.seen_context = audio_context_,
                                   !.bind_position = contexts[audio_context_].total_samples_written,
                                   !.binds = 1]
                    ELSE [@ EXCEPT !.pc = "init_rate"]]
    /\ UNCHANGED <<contexts, hist, wr, rd, device, audio_context_, stream_,
                   active_streams_, delivered, reconf, ts, enc, stream_ctx_mu_>>

\* mutant: only a negative size is rejected
ChunkSizeInvalidNegative(size) == size < 0

\* if (samples_per_chunk <= 0) throw
ChunkSizeInvalid(size) == size <= 0

\* get_audio: read the sample rate and channel count, size the chunk, and
\* throw on a non-positive size
InitChunkSize(s) ==
    /\ sess[s].pc = "init_rate"
    /\ LET size == SamplesPerChunk(device.sample_rate_, device.num_channels_)
       IN  sess' = [sess EXCEPT ![s] =
                      IF ChunkSizeInvalid(size)
                        THEN Leave(@, "runtime_error")
                        ELSE [@ EXCEPT !.pc = "poll",
                                       !.stream_sample_rate = device.sample_rate_,
                                       !.stream_num_channels = device.num_channels_,
                                       !.samples_per_chunk = size]]
    /\ UNCHANGED <<contexts, hist, wr, rd, device, audio_context_, stream_,
                   active_streams_, delivered, reconf, ts, enc, stream_ctx_mu_>>

\* mutant: the cursor of the old context is kept
RebindKeepPosition(ctx, read_position) == read_position

\* the read cursor of a session that rebinds to context ctx
RebindPosition(ctx, read_position) == get_write_position(ctx)

\* mutant: the counter is not advanced
NextSequenceStuck(sequence) == sequence

\* chunk.sequence_number = sequence++
NextSequence(sequence) == sequence + 1

\* mutant: the loop does not compare the contexts
DetectContextChangeNever(sn) == sn

\* mutant: the rebinding keeps the rate, channels and chunk size of the old
\* context
DetectContextChangeKeepFormat(sn) ==
    IF audio_context_ # sn.stream_context
      THEN [sn EXCEPT
              !.stream_context = audio_context_,
              !.read_position = RebindPosition(contexts[audio_context_], @),
              !.bind_position = contexts[audio_context_].total_samples_written,
              !.binds = @ + 1,
              !.since_bind = 0]
      ELSE sn

\* get_audio, context check of a poll iteration
DetectContextChange(sn) ==
    IF audio_context_ # sn.stream_context
      THEN [sn EXCEPT
              !.stream_sample_rate =
                  IF sn.stream_context # 0 THEN device.sample_rate_ ELSE @,
              !.stream_num_channels =
                  IF sn.stream_context # 0 THEN device.num_channels_ ELSE @,
              !.samples_per_chunk =
                  IF sn.stream_context # 0
                    THEN SamplesPerChunk(device.sample_rate_, device.num_channels_)
                    ELSE @,
              !.stream_context = audio_context_,
              !.read_position = RebindPosition(contexts[audio_context_], @),
              !.bind_position = contexts[audio_context_].total_samples_written,
              !.binds = @ + 1,
              !.since_bind = 0]
      ELSE sn

\* get_audio, head of the loop: leave when the duration has elapsed, else
\* check for a context change
Poll(s) ==
    /\ sess[s].pc = "poll"
    /\ sess' = [sess EXCEPT ![s] =
                  IF sess[s].expired
                    THEN [@ EXCEPT !.pc = "finish"]
                    ELSE [DetectContextChange(@) EXCEPT !.pc = "available",
                                                        !.seen_context = audio_context_]]
    /\ UNCHANGED <<contexts, hist, wr, rd, device, audio_context_, stream_,
                   active_streams_, delivered, reconf, ts, enc, stream_ctx_mu_>>

\* get_audio: sleep and retry unless a full chunk is available
CheckAvailable(s) ==
    /\ sess[s].pc = "available"
    /\ LET write_pos         == get_write_position(contexts[sess[s].stream_context])
           available_samples == write_pos - sess[s].read_position
       IN  sess' = [sess EXCEPT ![s] =
                      IF available_samples < sess[s].samples_per_chunk
                        THEN [@ EXCEPT !.pc = "poll"]
                        ELSE [@ EXCEPT !.pc = "read",
                                       !.temp_buffer = << >>,
                                       !.sources = << >>,
                                       !.chunk_start_position = sess[s].read_position]]
    /\ UNCHANGED <<contexts, hist, wr, rd, device, audio_context_, stream_,
                   active_streams_, delivered, reconf, ts, enc, stream_ctx_mu_>>

\* get_audio: read_samples(temp_buffer, samples_per_chunk, read_position), entry
ReadChunkBegin(s) ==
    /\ sess[s].pc = "read"
    /\ LET ctx      == contexts[sess[s].stream_context]
           w        == get_write_position(ctx)
           position == ClampPosition(w, ctx.buffer_capacity, sess[s].read_position)
           to_read  == SamplesToRead(w, position, sess[s].samples_per_chunk)
       IN  sess' = [sess EXCEPT ![s].read_position = position,
                                ![s].to_read = to_read,
                                ![s].pc = IF to_read = 0 THEN "deliver" ELSE "copy"]
    /\ UNCHANGED <<contexts, hist, wr, rd, device, audio_context_, stream_,
                   active_streams_, delivered, reconf, ts, enc, stream_ctx_mu_>>

\* mutant: the cursor moves two places for each sample copied
ReadChunkCopySkip(s) ==
    /\ sess[s].pc = "copy"
    /\ LET sample == LoadSample(contexts[sess[s].stream_context], sess[s].read_position)
           copied == Append(sess[s].temp_buffer, sample)
       IN  sess' = [sess EXCEPT ![s].temp_buffer = copied,
                                ![s].sources = Append(@, sess[s].stream_context),
                                ![s].read_position = @ + 2,
                                ![s].pc = IF Len(copied) = sess[s].to_read
                                            THEN "deliver" ELSE "copy"]
    /\ UNCHANGED <<contexts, hist, wr, rd, device, audio_context_, stream_,
                   active_streams_, delivered, reconf, ts, enc, stream_ctx_mu_>>

\* get_audio: read_samples, copy of one sample
ReadChunkCopy(s) ==
    /\ sess[s].pc = "copy"
    /\ LET sample == LoadSample(contexts[sess[s].stream_context], sess[s].read_position)
           copied == Append(sess[s].temp_buffer, sample)
       IN  sess' = [sess EXCEPT ![s].temp_buffer = copied,
                                ![s].sources = Append(@, sess[s].stream_context),
                                ![s].read_position = @ + 1,
                                ![s].pc = IF Len(copied) = sess[s].to_read
                                            THEN "deliver" ELSE "copy"]
    /\ UNCHANGED <<contexts, hist, wr, rd, device, audio_context_, stream_,
                   active_streams_, delivered, reconf, ts, enc, stream_ctx_mu_>>

\* mutant: the handler's return value is ignored
AfterHandlerContinue(result) == "poll"

\* get_audio: where the loop goes after the handler returned
AfterHandler(result) == IF result THEN "poll" ELSE "stop"

\* the chunk handed to the handler, with the ghost fields of its delivery
Chunk(sn, result) ==
    [ audio_data      |-> sn.temp_buffer,
      codec           |-> sn.codec,
      sample_rate_hz  |-> sn.stream_sample_rate,
      num_channels    |-> sn.stream_num_channels,
      sequence_number |-> sn.sequence,
      start_timestamp_ns |->
          calculate_sample_timestamp(contexts[sn.stream_context],
                                     Limbs(sn.chunk_start_position, U64Limbs)),
      end_timestamp_ns |->
          calculate_sample_timestamp(contexts[sn.stream_context],
                                     Limbs(sn.chunk_start_position + sn.to_read, U64Limbs)),
      \* ghost
      context         |-> sn.stream_context,
      start           |-> sn.chunk_start_position,
      sources         |-> sn.sources,
      seen_context    |-> sn.seen_context,
      bind_position   |-> sn.bind_position,
      binds           |-> sn.binds,
      since_bind      |-> sn.since_bind,
      chunk_size      |-> sn.samples_per_chunk,
      handler_result  |-> result ]

\* get_audio: a short read goes back to the loop head; a full chunk is
\* numbered, the duration timer is started with the first chunk, and the
\* handler is invoked and returns result
DeliverChunk(s, result) ==
    /\ sess[s].pc = "deliver"
    /\ IF sess[s].to_read < sess[s].samples_per_chunk
         THEN /\ sess' = [sess EXCEPT ![s].pc = "poll"]
              /\ UNCHANGED delivered
         ELSE /\ delivered' = [delivered EXCEPT ![s] = Append(@, Chunk(sess[s], result))]
              /\ sess' = [sess EXCEPT
                            ![s].sequence = NextSequence(@),
                            ![s].since_bind = @ + 1,
                            ![s].timer_started = @ \/ sess[s].duration_seconds > 0,
                            ![s].pc = AfterHandler(result)]
    /\ UNCHANGED <<contexts, hist, wr, rd, device, audio_context_, stream_,
                   active_streams_, reconf, ts, enc, stream_ctx_mu_>>

\* the wall clock passes end_time of a session whose timer runs
DurationElapses(s) ==
    /\ sess[s].pc # "idle"
    /\ sess[s].timer_started
    /\ ~sess[s].expired
    /\ sess' = [sess EXCEPT ![s].expired = TRUE]
    /\ UNCHANGED <<contexts, hist, wr, rd, device, audio_context_, stream_,
                   active_streams_, delivered, reconf, ts, enc, stream_ctx_mu_>>

StopEverySession(s) ==
    /\ sess[s].pc = "stop"
    /\ active_streams_' = 0
    /\ sess' = [t \in DOMAIN sess |->
                  IF sess[t].pc = "idle" THEN sess[t] ELSE Leave(sess[t], "stopped")]
    /\ UNCHANGED <<contexts, hist, wr, rd, device, audio_context_, stream_,
                   delivered, reconf, ts, enc, stream_ctx_mu_>>

\* get_audio: the handler returned false: count the session out and return
StopSession(s) ==
    /\ sess[s].pc = "stop"
    /\ active_streams_' = active_streams_ - 1
    /\ sess' = [sess EXCEPT ![s] = Leave(@, "stopped")]
    /\ UNCHANGED <<contexts, hist, wr, rd, device, audio_context_, stream_,
                   delivered, reconf, ts, enc, stream_ctx_mu_>>

\* get_audio: the loop ended: count the session out and return
FinishSession(s) ==
    /\ sess[s].pc = "finish"
    /\ active_streams_' = active_streams_ - 1
    /\ sess' = [sess EXCEPT ![s] = Leave(@, "completed")]
    /\ UNCHANGED <<contexts, hist, wr, rd, device, audio_context_, stream_,
                   delivered, reconf, ts, enc, stream_ctx_mu_>>

\* Microphone::Microphone: the component after a successful construction
\* from one of the configurations configs
InitMicrophone(configs) ==
    /\ \E params \in configs :
          /\ contexts = <<NewContext(AudioInfo(params), ContextSamplesPerChunk(params),
                                     BUFFER_DURATION_SECONDS)>>
          /\ device = DeviceFields(params)
    /\ hist = << << >> >>
    /\ wr = WriterIdle
    /\ rd = [r \in Readers |-> ReaderIdle]
    /\ audio_context_ = 1
    /\ stream_ = RestartStream(NoStream, 1, "ok")
    /\ active_streams_ = 0
    /\ sess = [s \in Sessions |-> SessionIdle]
    /\ delivered = [s \in Sessions |-> << >>]
    /\ reconf = 0
    /\ ts = TimestampNone
    /\ enc = EncoderNone
    /\ stream_ctx_mu_ = Unlocked

Init == InitMicrophone(StreamParams)

\* the steps of a get_audio session
SessionStep(s) ==
    \/ \E codec \in Codecs, duration_seconds \in Durations :
          GetAudio(s, codec, duration_seconds)
    \/ InitReadPosition(s)
    \/ InitChunkSize(s)
    \/ Poll(s)
    \/ CheckAvailable(s)
    \/ ReadChunkBegin(s)
    \/ ReadChunkCopy(s)
    \/ \E result \in BOOLEAN : DeliverChunk(s, result)
    \/ DurationElapses(s)
    \/ StopSession(s)
    \/ FinishSession(s)

Next ==
    \/ \E params \in StreamParams, outcome \in ReconfigureOutcomes :
          Reconfigure(params, outcome)
    \/ AudioCallbackNull
    \/ \E frames \in FrameCounts, adc_time \in AdcTimes, now \in WallClock :
          AudioCallback(frames, adc_time, now)
    \/ WriteStore
    \/ WritePublish
    \/ \E s \in Sessions, codec \in Codecs, duration_seconds \in Durations :
          GetAudio(s, codec, duration_seconds)
    \/ \E s \in Sessions : InitReadPosition(s)
    \/ \E s \in Sessions : InitChunkSize(s)
    \/ \E s \in Sessions : Poll(s)
    \/ \E s \in Sessions : CheckAvailable(s)
    \/ \E s \in Sessions : ReadChunkBegin(s)
    \/ \E s \in Sessions : ReadChunkCopy(s)
    \/ \E s \in Sessions, result \in BOOLEAN : DeliverChunk(s, result)
    \/ \E s \in Sessions : DurationElapses(s)
    \/ \E s \in Sessions : StopSession(s)
    \/ \E s \in Sessions : FinishSession(s)

Spec == Init /\ [][Next]_vars

(***************************************************************************)
(* SpecSlow: one consumer that starts with the stream, takes the first      *)
(* chunk, and whose handler then runs while the device delivers more than  *)
(* the buffer holds                                                        *)
(***************************************************************************)
SlowParams ==
    [device_name : DeviceNames, device_index : {0}, sample_rate : {SlowRate},
     num_channels : {1}, latency_seconds : Latencies]

\* the capacity of the context of SpecSlow
SlowCapacity ==
    BufferCapacity([sample_rate_hz |-> SlowRate, num_channels |-> 1], BUFFER_DURATION_SECONDS)

InitSlow == InitMicrophone(SlowParams)

NextSlow ==
    \/ \E adc_time \in AdcTimes, now \in WallClock :
          /\ hist[audio_context_] = << >>
          /\ AudioCallbackWithin(SlowCapacity + SlowExtra, SlowFirst, adc_time, now)
    \/ \E adc_time \in AdcTimes, now \in WallClock :
          /\ \E s \in Sessions : Len(delivered[s]) >= 1
          /\ AudioCallbackWithin(SlowCapacity + SlowExtra, SlowCapacity + 1, adc_time, now)
    \/ WriteStore
    \/ WritePublish
    \/ \E s \in Sessions :
          \/ hist[audio_context_] = << >> /\ GetAudio(s, PCM_16, 0)
          \/ InitReadPosition(s)
          \/ InitChunkSize(s)
          \/ Poll(s)
          \/ CheckAvailable(s)
          \* no read overlaps a callback: what a read returns while a
          \* sample is being written is the subject of C3
          \/ wr = WriterIdle /\ ReadChunkBegin(s)
          \/ wr = WriterIdle /\ ReadChunkCopy(s)
          \/ Len(delivered[s]) < MaxSlowChunks /\ DeliverChunk(s, TRUE)

SpecSlow == InitSlow /\ [][NextSlow]_vars

(***************************************************************************)
(* SpecTimestamp: calculate_sample_timestamp evaluated on an anchored      *)
(* context                                                                 *)
(***************************************************************************)
TimestampCtx == 1

\* the sample number digit * 2^(8 * shift)
SampleNumber(digit, shift) == ShiftLimbs(Limbs(digit, U64Limbs), shift)

TimestampSamples ==
    {SampleNumber(digit, shift) : digit \in TimestampDigits, shift \in TimestampShifts}

InitTimestamp ==
    /\ \E sample_rate \in TimestampRates, num_channels \in TimestampChannels,
          start \in TimestampStarts :
          contexts = <<[NewContext([codec |-> PCM_16, sample_rate_hz |-> sample_rate,
                                    num_channels |-> num_channels],
                                   sample_rate \div CHUNKS_PER_SECOND,
                                   BUFFER_DURATION_SECONDS)
                          EXCEPT !.stream_start_time = start,
                                 !.first_callback_captured = TRUE]>>
    /\ hist = << << >> >>
    /\ wr = WriterIdle
    /\ rd = [r \in Readers |-> ReaderIdle]
    /\ InitMicNone
    /\ ts = TimestampNone
    /\ enc = EncoderNone
    /\ stream_ctx_mu_ = Unlocked

\* one call of calculate_sample_timestamp
CalculateSampleTimestamp(sample_number) ==
    /\ ts' = [pc |-> "done", sample_number |-> sample_number,
              timestamp |-> calculate_sample_timestamp(contexts[TimestampCtx], sample_number)]
    /\ UNCHANGED <<contexts, hist, wr, rd, micVars, enc, stream_ctx_mu_>>

NextTimestamp == \E sample_number \in TimestampSamples : CalculateSampleTimestamp(sample_number)

SpecTimestamp == InitTimestamp /\ [][NextTimestamp]_vars

(***************************************************************************)
(* SpecShared: several get_audio sessions run concurrently on one device   *)
(***************************************************************************)
InitShared ==
    /\ \E params \in SlowParams :
          /\ contexts = <<NewContext(AudioInfo(params), ContextSamplesPerChunk(params),
                                     BUFFER_DURATION_SECONDS)>>
          /\ device = DeviceFields(params)
    /\ hist = << << >> >>
    /\ wr = WriterIdle
    /\ rd = [r \in Readers |-> ReaderIdle]
    /\ audio_context_ = 1
    /\ stream_ = RestartStream(NoStream, 1, "ok")
    /\ active_streams_ = 0
    /\ sess = [s \in SharedSessions |-> SessionIdle]
    /\ delivered = [s \in SharedSessions |-> << >>]
    /\ reconf = 0
    /\ ts = TimestampNone
    /\ enc = EncoderNone
    /\ stream_ctx_mu_ = Unlocked

NextShared ==
    \/ \E frames \in FrameCounts, adc_time \in AdcTimes, now \in WallClock :
          AudioCallback(frames, adc_time, now)
    \/ WriteStore
    \/ WritePublish
    \/ \E s \in SharedSessions : SessionStep(s)

SpecShared == InitShared /\ [][NextShared]_vars

(***************************************************************************)
(* SpecLock: reconfigure step by step, with stream_ctx_mu_; the locked     *)
(* sections of get_audio read and assign fields only and stay one step     *)
(***************************************************************************)
ReconfigureThread == "reconfigure"

\* reconfigure: the new context is built, the mutex is taken, the
\* configuration fields and audio_context_ are assigned
ReconfigureLock(params) ==
    /\ stream_ctx_mu_ = Unlocked
    /\ reconf < MaxReconfigures
    /\ reconf' = reconf + 1
    /\ stream_ctx_mu_' = ReconfigureThread
    /\ contexts' = Append(contexts,
          NewContext(AudioInfo(params), ContextSamplesPerChunk(params),
                     BUFFER_DURATION_SECONDS))
    /\ hist' = Append(hist, << >>)
    /\ device' = DeviceFields(params)
    /\ audio_context_' = Len(contexts) + 1
    /\ UNCHANGED <<wr, rd, stream_, active_streams_, sess, delivered, ts, enc>>

\* restart_stream, called with the mutex held: stop and close the running
\* stream; stopping waits for a running callback to return
RestartStopStream ==
    /\ stream_ctx_mu_ = ReconfigureThread
    /\ stream_.running
    /\ stream_.user_data # audio_context_
    /\ wr = WriterIdle
    /\ stream_' = NoStream
    /\ UNCHANGED <<contexts, hist, wr, rd, device, audio_context_, active_streams_, sess,
                   delivered, reconf, ts, enc, stream_ctx_mu_>>

\* restart_stream: open the new stream on the new context and start it
RestartOpenStream ==
    /\ stream_ctx_mu_ = ReconfigureThread
    /\ ~stream_.running
    /\ stream_' = RestartStream(NoStream, audio_context_, "ok")
    /\ UNCHANGED <<contexts, hist, wr, rd, device, audio_context_, active_streams_, sess,
                   delivered, reconf, ts, enc, stream_ctx_mu_>>

\* reconfigure: the lock_guard goes out of scope
ReconfigureUnlock ==
    /\ stream_ctx_mu_ = ReconfigureThread
    /\ stream_.running
    /\ stream_.user_data = audio_context_
    /\ stream_ctx_mu_' = Unlocked
    /\ UNCHANGED <<contexts, hist, wr, rd, device, audio_context_, stream_, active_streams_,
                   sess, delivered, reconf, ts, enc>>

\* the steps of get_audio that take stream_ctx_mu_ wait until it is free
LockedSessionStep(s) ==
    /\ stream_ctx_mu_ = Unlocked
    /\ \/ GetAudio(s, PCM_16, 0)
       \/ InitReadPosition(s)
       \/ InitChunkSize(s)
       \/ Poll(s)
       \/ StopSession(s)
       \/ FinishSession(s)

\* the steps of get_audio outside its locked sections: the poll sleep, the
\* read of a chunk, the handler
UnlockedSessionStep(s) ==
    \/ CheckAvailable(s)
    \/ ReadChunkBegin(s)
    \/ ReadChunkCopy(s)
    \/ \E result \in BOOLEAN : DeliverChunk(s, result)

InitLock == InitMicrophone(SlowParams)

NextLock ==
    \/ \E params \in StreamParams : ReconfigureLock(params)
    \/ RestartStopStream
    \/ RestartOpenStream
    \/ ReconfigureUnlock
    \/ \E frames \in FrameCounts, adc_time \in AdcTimes, now \in WallClock :
          AudioCallback(frames, adc_time, now)
    \/ WriteStore
    \/ WritePublish
    \/ \E s \in Sessions : LockedSessionStep(s)
    \/ \E s \in Sessions : UnlockedSessionStep(s)

SpecLock == InitLock /\ [][NextLock]_vars

(***************************************************************************)
(* SpecAnchor: invocations of AudioCallback on one context that may        *)
(* overlap in time; each load and store of the first-callback branch is a  *)
(* step                                                                    *)
(***************************************************************************)
AnchorCtx == 1

InvocationIdle == [pc |-> "idle", adc_time |-> 0, input |-> << >>]

\* ghost: started counts the invocations so far, assignments those that
\* assigned the anchor, overlapped tells whether two have run at a time
AnchorIdle ==
    [calls |-> [i \in Invocations |-> InvocationIdle],
     started |-> 0, assignments |-> 0, overlapped |-> FALSE]

InitAnchor ==
    /\ \E params \in SlowParams :
          /\ contexts = <<NewContext(AudioInfo(params), ContextSamplesPerChunk(params),
                                     BUFFER_DURATION_SECONDS)>>
          /\ device = DeviceFields(params)
    /\ hist = << << >> >>
    /\ wr = AnchorIdle
    /\ rd = [r \in Readers |-> ReaderIdle]
    /\ audio_context_ = AnchorCtx
    /\ stream_ = RestartStream(NoStream, AnchorCtx, "ok")
    /\ active_streams_ = 0
    /\ sess = [s \in Sessions |-> SessionIdle]
    /\ delivered = [s \in Sessions |-> << >>]
    /\ reconf = 0
    /\ ts = TimestampNone
    /\ enc = EncoderNone
    /\ stream_ctx_mu_ = Unlocked

\* AudioCallback is entered with an input buffer of one frame and timeInfo
CallbackEnter(i, adc_time) ==
    /\ wr.calls[i].pc = "idle"
    /\ wr.started < MaxInvocations
    /\ wr' = [wr EXCEPT
                !.calls[i] = [pc |-> "check", adc_time |-> adc_time,
                              input |-> InputBuffer(AnchorCtx, wr.started, 1)],
                !.started = @ + 1,
                !.overlapped = @ \/ \E j \in Invocations \ {i} : wr.calls[j].pc # "idle"]
    /\ UNCHANGED <<contexts, hist, rd, micVars, ts, enc, stream_ctx_mu_>>

\* if (!ctx->first_callback_captured.load())
CallbackCheck(i) ==
    /\ wr.calls[i].pc = "check"
    /\ wr' = [wr EXCEPT !.calls[i].pc =
                IF ~contexts[AnchorCtx].first_callback_captured THEN "adc" ELSE "write"]
    /\ UNCHANGED <<contexts, hist, rd, micVars, ts, enc, stream_ctx_mu_>>

\* ctx->first_sample_adc_time = timeInfo->inputBufferAdcTime
CallbackStoreAdcTime(i) ==
    /\ wr.calls[i].pc = "adc"
    /\ contexts' = [contexts EXCEPT
                      ![AnchorCtx].first_sample_adc_time = wr.calls[i].adc_time]
    /\ wr' = [wr EXCEPT !.calls[i].pc = "start"]
    /\ UNCHANGED <<hist, rd, micVars, ts, enc, stream_ctx_mu_>>

\* ctx->stream_start_time = std::chrono::system_clock::now()
CallbackStoreStartTime(i, now) ==
    /\ wr.calls[i].pc = "start"
    /\ contexts' = [contexts EXCEPT ![AnchorCtx].stream_start_time = now]
    /\ wr' = [wr EXCEPT !.calls[i].pc = "flag"]
    /\ UNCHANGED <<hist, rd, micVars, ts, enc, stream_ctx_mu_>>

\* ctx->first_callback_captured.store(true)
CallbackStoreCaptured(i) ==
    /\ wr.calls[i].pc = "flag"
    /\ contexts' = [contexts EXCEPT ![AnchorCtx].first_callback_captured = TRUE]
    /\ wr' = [wr EXCEPT !.calls[i].pc = "write", !.assignments = @ + 1]
    /\ UNCHANGED <<hist, rd, micVars, ts, enc, stream_ctx_mu_>>

\* the write loop: write_sample(input[0]); return paContinue
CallbackWrite(i) ==
    /\ wr.calls[i].pc = "write"
    /\ contexts' = [contexts EXCEPT
                      ![AnchorCtx] = PublishSample(StoreSample(@, wr.calls[i].input[1]))]
    /\ hist' = [hist EXCEPT ![AnchorCtx] = Append(@, wr.calls[i].input[1])]
    /\ wr' = [wr EXCEPT !.calls[i] = InvocationIdle]
    /\ UNCHANGED <<rd, micVars, ts, enc, stream_ctx_mu_>>

NextAnchor ==
    \/ \E i \in Invocations, adc_time \in AnchorAdcTimes : CallbackEnter(i, adc_time)
    \/ \E i \in Invocations : CallbackCheck(i)
    \/ \E i \in Invocations : CallbackStoreAdcTime(i)
    \/ \E i \in Invocations, now \in AnchorWallClock : CallbackStoreStartTime(i, now)
    \/ \E i \in Invocations : CallbackStoreCaptured(i)
    \/ \E i \in Invocations : CallbackWrite(i)

SpecAnchor == InitAnchor /\ [][NextAnchor]_vars

(***************************************************************************)
(* SpecLive: the component, never reconfigured, with the scheduling the    *)
(* code relies on: the thread of a session keeps running (sleep_for        *)
(* returns, the handler returns) and the wall clock advances; the caller   *)
(* and the device are not obliged to act                                   *)
(***************************************************************************)
\* a step of the thread of session s inside get_audio
SessionProgress(s) ==
    \/ InitReadPosition(s)
    \/ InitChunkSize(s)
    \/ Poll(s)
    \/ CheckAvailable(s)
    \/ ReadChunkBegin(s)
    \/ ReadChunkCopy(s)
    \/ \E result \in BOOLEAN : DeliverChunk(s, result)
    \/ StopSession(s)
    \/ FinishSession(s)

InitLive == InitMicrophone(SlowParams)

NextLive ==
    \/ \E frames \in FrameCounts, adc_time \in AdcTimes, now \in WallClock :
          AudioCallback(frames, adc_time, now)
    \/ WriteStore
    \/ WritePublish
    \/ \E s \in Sessions : SessionStep(s)

SpecLive ==
    /\ InitLive
    /\ [][NextLive]_vars
    /\ \A s \in Sessions : WF_vars(SessionProgress(s)) /\ WF_vars(DurationElapses(s))

(***************************************************************************)
(* SpecConfig: the component built with any of a wider set of              *)
(* configurations and never reconfigured                                   *)
(***************************************************************************)
ConfigParams ==
    [device_name : DeviceNames, device_index : {0}, sample_rate : ConfigRates,
     num_channels : ConfigChannels, latency_seconds : Latencies]

InitConfig == InitMicrophone(ConfigParams)

NextConfig ==
    \/ AudioCallbackNull
    \/ \E frames \in FrameCounts, adc_time \in AdcTimes, now \in WallClock :
          AudioCallbackWithin(ConfigCaptured, frames, adc_time, now)
    \/ WriteStore
    \/ WritePublish
    \/ \E s \in Sessions : SessionStep(s)

SpecConfig == InitConfig /\ [][NextConfig]_vars

(***************************************************************************)
(* Properties of the ring buffer (SpecRing)                                *)
(***************************************************************************)
RingBuf == contexts[RingCtx]
Written == hist[RingCtx]

\* the values written for the indices first .. first + n - 1
WrittenRange(first, n) == SubSeq(Written, first + 1, first + n)

\* reader r has returned from read_samples; its return value is the number of
\* samples it copied
Returned(r) == rd[r].pc = "done"
ReturnValue(r) == Len(rd[r].buffer)

\* no slot has been overwritten yet: at most capacity samples stored
NoWrapYet == Len(Written) <= RingBuf.buffer_capacity

\* no write_sample overlapped the call of reader r: every sample stored so far
\* had been published when the call took its snapshot
NoWriteDuring(r) == Len(Written) = rd[r].w

\* C1: after N <= C writes, a read of K <= N available samples from a cursor
\* returns K, advances the cursor by K and yields the K values written at the
\* cursor, in write order; a later read from the advanced cursor yields the
\* values that follow.
C1_WriteReadOrdering ==
    \A r \in Readers :
        (Returned(r) /\ NoWrapYet /\ rd[r].sample_count <= rd[r].w - rd[r].start)
        => /\ ReturnValue(r) = rd[r].sample_count
           /\ rd[r].position = rd[r].start + rd[r].sample_count
           /\ rd[r].buffer = WrittenRange(rd[r].start, rd[r].sample_count)

\* a second read that continued from an advanced cursor and returned two samples
C1_Witness ==
    /\ Returned(1) /\ NoWrapYet
    /\ rd[1].start = 1 /\ rd[1].sample_count = 2 /\ ReturnValue(1) = 2

\* C2: with w the snapshot and w - C <= cursor <= w, read_samples returns
\* min(count, w - cursor) and advances the cursor by exactly that; with fewer
\* than count samples available it returns the available ones only.
C2_ReadCount ==
    \A r \in Readers :
        (Returned(r) /\ rd[r].start <= rd[r].w
                     /\ rd[r].start + RingBuf.buffer_capacity >= rd[r].w)
        => /\ ReturnValue(r) = Min(rd[r].sample_count, rd[r].w - rd[r].start)
           /\ rd[r].position = rd[r].start + ReturnValue(r)

\* a read that asked for more than was available and got the available two
C2_Witness ==
    /\ Returned(1)
    /\ rd[1].w - rd[1].start = 2 /\ rd[1].sample_count > 2 /\ ReturnValue(1) = 2

\* every index of the window [total_samples_written - C, total_samples_written)
\* holds the value written for it
WindowValid ==
    \A i \in 0 .. (RingBuf.total_samples_written - 1) :
        i + RingBuf.buffer_capacity >= RingBuf.total_samples_written
        => RingBuf.audio_buffer[i % RingBuf.buffer_capacity] = Written[i + 1]

\* every sample a returned read copied is the value written for its index
ReadsValid ==
    \A r \in Readers :
        (Returned(r) /\ rd[r].first + RingBuf.buffer_capacity >= rd[r].w)
        => rd[r].buffer = WrittenRange(rd[r].first, ReturnValue(r))

\* C3: at every instant, also between the store and the increment of
\* write_sample, every index of the window holds the value written for it, and
\* a read that copies indices of the window of its snapshot returns for each
\* index the value written for it, whatever the writer does meanwhile.
C3_ValidityWindow == WindowValid /\ ReadsValid

\* C4: once more than C samples are written, a read from a cursor older than
\* w - C, not overlapped by a write, returns at most C samples, and they are
\* the values written for consecutive indices among the C most recent, in
\* write order.
C4_LossyWraparound ==
    \A r \in Readers :
        (Returned(r) /\ rd[r].start + RingBuf.buffer_capacity < rd[r].w /\ NoWriteDuring(r))
        => /\ ReturnValue(r) <= RingBuf.buffer_capacity
           /\ ReturnValue(r) = Min(rd[r].sample_count, RingBuf.buffer_capacity)
           /\ rd[r].first + RingBuf.buffer_capacity >= Len(Written)
           /\ rd[r].buffer = WrittenRange(rd[r].first, ReturnValue(r))
           /\ rd[r].position = rd[r].first + ReturnValue(r)

\* a read from the stale cursor 0 that asked for more than C samples and
\* returned C of them
C4_Witness ==
    /\ Returned(1) /\ NoWriteDuring(1)
    /\ rd[1].start = 0 /\ rd[1].w > RingBuf.buffer_capacity
    /\ rd[1].sample_count > RingBuf.buffer_capacity
    /\ ReturnValue(1) = RingBuf.buffer_capacity

\* two returned reads of the same index range, with no write since either began
SameRangeRead ==
    /\ Returned(1) /\ Returned(2)
    /\ rd[1].first = rd[2].first /\ ReturnValue(1) = ReturnValue(2)
    /\ NoWriteDuring(1) /\ NoWriteDuring(2)

\* a step of read_samples changes the cursor and destination of one reader
\* and nothing else
ReadStepFrame ==
    (rd' # rd) => /\ contexts' = contexts
                  /\ hist' = hist
                  /\ wr' = wr
                  /\ \E r \in Readers : \A q \in Readers \ {r} : rd'[q] = rd[q]

\* C5: read_samples changes nothing but the caller's own cursor and
\* destination, and two readers with separate cursors that read the same index
\* range obtain identical data, however their calls interleave.
C5_IndependentReaders ==
    /\ [](SameRangeRead => rd[1].buffer = rd[2].buffer)
    /\ [][ReadStepFrame]_vars

\* both readers read the two samples at indices 1 and 2
C5_Witness ==
    /\ SameRangeRead
    /\ rd[1].first = 1 /\ ReturnValue(1) = 2 /\ rd[2].start = 1

(***************************************************************************)
(* Properties of get_audio and reconfigure (Spec)                          *)
(***************************************************************************)
Chunks(s) == delivered[s]
ChunkIndexes(s) == 1 .. Len(delivered[s])
LastChunk(s) == delivered[s][Len(delivered[s])]

\* the values written to context c for the indices first .. first + n - 1
CapturedRange(c, first, n) == SubSeq(hist[c], first + 1, first + n)

\* the step hands a chunk to the handler of session s
Delivers(s) == Len(delivered'[s]) = Len(delivered[s]) + 1

\* a session's cursor never runs ahead of the write position of the context
\* it is bound to, so write_pos - read_position never wraps
CursorBehindWriter ==
    \A s \in Sessions :
        sess[s].stream_context # 0
        => sess[s].read_position
             <= contexts[sess[s].stream_context].total_samples_written

\* C6: when the handler returns false for a chunk, get_audio returns after
\* that chunk and the handler is not invoked again in that session, even if
\* another full chunk is already available.
C6_Cancellation ==
    \A s \in Sessions : \A k \in ChunkIndexes(s) :
        ~Chunks(s)[k].handler_result
        => /\ k = Len(Chunks(s))
           /\ sess[s].pc \in {"stop", "idle"}

\* the session has returned after a chunk its handler refused, while the
\* context it read from, still the live one, holds a further full chunk
C6_Witness ==
    /\ Chunks(1) # << >>
    /\ ~LastChunk(1).handler_result
    /\ sess[1].pc = "idle"
    /\ audio_context_ = LastChunk(1).context
    /\ contexts[LastChunk(1).context].total_samples_written
         >= LastChunk(1).start + 2 * LastChunk(1).chunk_size

\* C7: a session bound to A when reconfigure swaps in B detects the swap at
\* the head of a later poll iteration and rebinds to B with its cursor at B's
\* write position of that moment; every chunk is read from the context that
\* was live at the poll before it, wholly from that one context, and no chunk
\* comes from an older context once a newer one has been bound.
C7_ReconfigurationContinuity ==
    \A s \in Sessions :
        /\ sess[s].pc \in {"available", "read", "copy", "deliver"}
           => sess[s].stream_context = sess[s].seen_context
        /\ \A k \in ChunkIndexes(s) :
             LET c == Chunks(s)[k]
             IN  /\ c.context = c.seen_context
                 /\ \A i \in 1 .. Len(c.sources) : c.sources[i] = c.context
                 /\ c.audio_data = CapturedRange(c.context, c.start, c.chunk_size)
                 /\ c.start >= c.bind_position
                 /\ (c.since_bind = 0) => (c.start = c.bind_position)
                 /\ \A j \in 1 .. (k - 1) : Chunks(s)[j].context <= c.context

\* a session delivered a chunk from the first context and then, rebound, a
\* chunk from the second, which already held a sample when the session bound
C7_Witness ==
    /\ Len(Chunks(1)) >= 2
    /\ Chunks(1)[1].context = 1
    /\ LastChunk(1).context = 2
    /\ LastChunk(1).bind_position > 0
    /\ LastChunk(1).start = LastChunk(1).bind_position

\* C8: a reconfigure that fails, at whatever step, leaves device_name_,
\* device_index_, sample_rate_, num_channels_, latency_ and audio_context_ as
\* they were before the call.
C8_FailedReconfigureKeepsState ==
    [][\A params \in StreamParams, outcome \in ReconfigureOutcomes \ {"ok"} :
          Reconfigure(params, outcome)
          => (device' = device /\ audio_context_' = audio_context_)]_vars

\* C9: the chunks of one session carry the sequence numbers 0, 1, 2, ... in
\* delivery order, also across a reconfiguration, and every new session starts
\* again at 0.
C9_SequenceNumbers ==
    \A s \in Sessions :
        /\ \A k \in ChunkIndexes(s) : Chunks(s)[k].sequence_number = k - 1
        /\ sess[s].pc # "idle" => sess[s].sequence = Len(Chunks(s))

\* a second session on the same thread delivered chunks 0 and 1 from two
\* different contexts
C9_Witness ==
    /\ sess[1].again
    /\ Len(Chunks(1)) = 2
    /\ Chunks(1)[1].context # Chunks(1)[2].context
    /\ Chunks(1)[2].sequence_number = 1

\* every chunk starts at or after the write position its session bound at,
\* the first chunk of a session that never rebound exactly at it, and every
\* chunk holds the samples written for the indices from its start
LiveStart ==
    \A s \in Sessions : \A k \in ChunkIndexes(s) :
        /\ Chunks(s)[k].start >= Chunks(s)[k].bind_position
        /\ (k = 1 /\ Chunks(s)[k].binds = 1)
           => Chunks(s)[k].start = Chunks(s)[k].bind_position
        /\ Chunks(s)[k].audio_data
             = CapturedRange(Chunks(s)[k].context, Chunks(s)[k].start, Chunks(s)[k].chunk_size)

\* when a session that never rebound hands over the chunk numbered k, at least
\* (k + 1) * chunk_size samples have been written since it bound
Paced ==
    \A s \in Sessions :
        (Delivers(s) /\ sess[s].binds = 1)
        => contexts[sess[s].stream_context].total_samples_written - sess[s].bind_position
             >= (sess[s].sequence + 1) * sess[s].samples_per_chunk

\* C10: a session binds at the write position of that moment and never
\* delivers a sample written before it; in a session bound to one context
\* throughout, chunk k is handed over only after at least (k + 1) * chunk_size
\* samples were written to that context since the session began.
C10_LiveStartAndPacing == []LiveStart /\ [][Paced]_vars

\* a session that bound when the context already held a sample delivered its
\* chunk 0 from the samples after it
C10_Witness ==
    /\ Chunks(1) # << >>
    /\ Chunks(1)[1].binds = 1
    /\ Chunks(1)[1].bind_position > 0
    /\ Chunks(1)[1].start = Chunks(1)[1].bind_position
    /\ Chunks(1)[1].chunk_size > 0

(***************************************************************************)
(* Properties of the chunk size (SpecConfig)                               *)
(***************************************************************************)
\* chunk.audio_data.size(): samples_read * sizeof(int16_t) bytes
PayloadBytes(chunk) == Len(chunk.audio_data) * BYTES_PER_SAMPLE

\* round(sample_rate x 0.1), halves rounded up
RoundedFramesPerChunk(sample_rate) == (2 * sample_rate + CHUNKS_PER_SECOND) \div (2 * CHUNKS_PER_SECOND)

\* C11: the chunk size of a session is round(sample_rate x 0.1) x channels
\* and every chunk handed to the handler has a payload of exactly
\* chunk_size x 2 bytes.
C11_ChunkSize ==
    \A s \in Sessions :
        /\ sess[s].pc \in {"poll", "available", "read", "copy", "deliver"}
           => sess[s].samples_per_chunk
                = RoundedFramesPerChunk(sess[s].stream_sample_rate) * sess[s].stream_num_channels
        /\ \A k \in ChunkIndexes(s) :
              PayloadBytes(Chunks(s)[k])
                = RoundedFramesPerChunk(Chunks(s)[k].sample_rate_hz)
                    * Chunks(s)[k].num_channels * BYTES_PER_SAMPLE

\* the part of C11 the code keeps: a chunk is never short or oversized
\* with respect to the chunk size its session computed
PayloadIsChunkSize ==
    \A s \in Sessions : \A k \in ChunkIndexes(s) :
        PayloadBytes(Chunks(s)[k]) = Chunks(s)[k].chunk_size * BYTES_PER_SAMPLE

(***************************************************************************)
(* Properties of calculate_sample_timestamp (SpecTimestamp)                *)
(***************************************************************************)
\* stream_start_time + floor(floor(s / num_channels) * 10^9 / sample_rate_hz),
\* in arithmetic that does not wrap
ExactTimestamp(ctx, sample_number) == SampleTimestamp(ctx, sample_number, WideLimbs)

TimestampCalculated == ts.pc = "done"

\* C12: calculate_sample_timestamp(0) is stream_start_time, for a sample
\* index s the result is stream_start_time
\* + floor(floor(s / num_channels) * 10^9 / sample_rate_hz) ns, and one
\* second's worth of samples maps to stream_start_time + 1 s.
C12_TimestampLinearity ==
    TimestampCalculated =>
        LET ctx == contexts[TimestampCtx]
        IN  /\ ResizeLimbs(ts.timestamp, WideLimbs) = ExactTimestamp(ctx, ts.sample_number)
            /\ ts.sample_number = Limbs(0, U64Limbs)
                 => ts.timestamp = Limbs(ctx.stream_start_time, U64Limbs)
            /\ ts.sample_number = Limbs(ctx.info.sample_rate_hz * ctx.info.num_channels, U64Limbs)
                 => ts.timestamp
                      = Limbs(ctx.stream_start_time + NANOSECONDS_PER_SECOND, U64Limbs)

\* the product frame_number * NANOSECONDS_PER_SECOND fits a uint64_t
ProductFits(ctx, sample_number) ==
    \A frame_number \in {DivLimbs(ResizeLimbs(sample_number, WideLimbs), ctx.info.num_channels)} :
    \A product \in {MulLimbs(frame_number, Limbs(NANOSECONDS_PER_SECOND, WideLimbs))} :
    \A i \in (U64Limbs + 1) .. WideLimbs : product[i] = 0

\* the part of C12 the code keeps: the result is exact whenever the product fits
TimestampExactWithoutWrap ==
    (TimestampCalculated /\ ProductFits(contexts[TimestampCtx], ts.sample_number))
        => ResizeLimbs(ts.timestamp, WideLimbs)
             = ExactTimestamp(contexts[TimestampCtx], ts.sample_number)

\* a timestamp was calculated for a sample number whose product fits and
\* for which a whole number of seconds has passed
TimestampWithoutWrapReached ==
    /\ TimestampCalculated
    /\ ProductFits(contexts[TimestampCtx], ts.sample_number)
    /\ ts.sample_number = SampleNumber(4, 4)

(***************************************************************************)
(* Properties of the chunks of a slow consumer (SpecSlow)                  *)
(***************************************************************************)
\* C13: every chunk handed to the handler holds exactly the samples with the
\* absolute indices [s, s + chunk_size) of its bound context, in order, and
\* its start and end timestamps are those of s and of s + chunk_size, also
\* when the cursor of its session has fallen more than the capacity behind
\* the writer.
C13_ChunkMatchesTimestamps ==
    \A s \in Sessions : \A k \in ChunkIndexes(s) :
        LET c   == Chunks(s)[k]
            ctx == contexts[c.context]
        IN  /\ c.audio_data = CapturedRange(c.context, c.start, c.chunk_size)
            /\ c.start_timestamp_ns
                 = calculate_sample_timestamp(ctx, Limbs(c.start, U64Limbs))
            /\ c.end_timestamp_ns
                 = calculate_sample_timestamp(ctx, Limbs(c.start + c.chunk_size, U64Limbs))

(***************************************************************************)
(* Properties of the duration bound (SpecLive)                             *)
(***************************************************************************)
InGetAudio(s) == sess[s].pc # "idle"

\* once the loop head has seen the elapsed bound, no chunk is delivered
NoChunkAfterBoundChecked ==
    \A s \in Sessions : sess[s].pc = "finish" => delivered'[s] = delivered[s]

\* C14: a session called with duration_seconds > 0 eventually ends, whatever
\* the device does (also when it delivers no sample) and also when the handler
\* always returns true; once the elapsed bound has been checked no further
\* chunk is delivered.
C14_DurationBound ==
    /\ \A s \in Sessions :
          (InGetAudio(s) /\ sess[s].duration_seconds > 0) ~> ~InGetAudio(s)
    /\ [][NoChunkAfterBoundChecked]_vars

\* the part of C14 the code keeps: a session whose timer was started by its
\* first chunk eventually ends
TimerStartedLeadsToEnd ==
    \A s \in Sessions : (InGetAudio(s) /\ sess[s].timer_started) ~> ~InGetAudio(s)

(***************************************************************************)
(* Properties of the entry of get_audio (Spec, SpecConfig)                 *)
(***************************************************************************)
\* a call that was rejected for its codec is over and its handler has not
\* been invoked
RejectedCodecDeliversNothing ==
    \A s \in Sessions :
        sess[s].outcome = "invalid_argument" => (~InGetAudio(s) /\ delivered[s] = << >>)

\* a call with an unsupported codec throws at once and changes nothing of
\* the component
RejectedCodecStep ==
    \A s \in Sessions, codec \in Codecs \ {PCM_16}, duration_seconds \in Durations :
        GetAudio(s, codec, duration_seconds)
            => /\ sess'[s].outcome = "invalid_argument"
               /\ ~InGetAudio(s)'
               /\ UNCHANGED <<active_streams_, device, audio_context_, contexts, stream_>>

\* C15: get_audio with a codec other than PCM16 fails with an
\* invalid-argument error before streaming begins: the handler is never
\* invoked and the session counter, the configuration and the context are
\* unchanged.
C15_UnsupportedCodec == []RejectedCodecDeliversNothing /\ [][RejectedCodecStep]_vars

\* a call was rejected for its codec while the stream had captured samples
C15_Witness ==
    \E s \in Sessions :
        /\ sess[s].outcome = "invalid_argument"
        /\ contexts[audio_context_].total_samples_written > 0

\* C16: when the chunk size computed at the start of a session is not
\* positive, get_audio fails with a runtime error before it enters the loop
\* and the handler is never invoked; a session inside the loop has a positive
\* chunk size.
C16_NonPositiveChunkSize ==
    \A s \in Sessions :
        /\ sess[s].outcome = "runtime_error" => (~InGetAudio(s) /\ delivered[s] = << >>)
        /\ sess[s].pc \in {"poll", "available", "read", "copy", "deliver", "stop", "finish"}
             => /\ sess[s].samples_per_chunk > 0
                /\ SamplesPerChunk(device.sample_rate_, device.num_channels_) > 0
        /\ (~InGetAudio(s) /\ sess[s].outcome \in {"stopped", "completed"})
             => SamplesPerChunk(device.sample_rate_, device.num_channels_) > 0

\* a session failed on its chunk size while the stream had captured samples
C16_Witness ==
    \E s \in Sessions :
        /\ sess[s].outcome = "runtime_error"
        /\ SamplesPerChunk(device.sample_rate_, device.num_channels_) = 0
        /\ contexts[audio_context_].total_samples_written > 0

(***************************************************************************)
(* Properties of AudioCallback (Spec)                                      *)
(***************************************************************************)
\* C17: AudioCallback with a null input buffer returns paContinue and
\* leaves the write position, the buffer contents and the timestamp anchor
\* of the context as they were.
C17_NullInputIsNoOp ==
    [][AudioCallbackNull
         => /\ stream_'.callback_result = "paContinue"
            /\ contexts' = contexts
            /\ hist' = hist
            /\ wr' = wr]_vars

\* the latest callback had a null input and the context is still not anchored
C17_Witness ==
    /\ stream_.callback_input = "null"
    /\ stream_.callback_result = "paContinue"
    /\ ~contexts[stream_.user_data].first_callback_captured
    /\ contexts[stream_.user_data].total_samples_written = 0

(***************************************************************************)
(* MP3 encoder (mp3_encoder.cpp): the frame accumulator in front of the    *)
(* codec.  Samples are ghost-numbered 1, 2, ... in the order appended.     *)
(***************************************************************************)
\* mp3 standard frame size: samples per channel
Mp3FrameSamples == 1152
\* what lame_encode_flush may emit at most, and the slack of mp3buf_size
Mp3FlushBytes == 7200
LAME_GENERICERROR == -1

\* a default-constructed MP3EncoderContext (encoder: is the pointer non-null)
NewEncoderContext ==
    [ encoder               |-> FALSE,
      buffer                |-> << >>,
      sample_rate           |-> 0,
      num_channels          |-> 0,
      buffer_start_position |-> 0,
      total_samples_encoded |-> 0 ]

\* ghost: no call made on the context yet
NoEncoderCall ==
    [op |-> "none", result |-> "none", buffer_before |-> << >>, codec_before |-> 0,
     appended_before |-> 0]

\* mutant: the channels are taken the other way round
deinterleave_swapped(interleaved) ==
    LET num_frames == Len(interleaved) \div 2
    IN  [ left  |-> [i \in 1 .. num_frames |-> interleaved[2 * i]],
          right |-> [i \in 1 .. num_frames |-> interleaved[2 * i - 1]] ]

\* deinterleave_samples: an odd last sample belongs to no frame
deinterleave_samples(interleaved) ==
    LET num_frames == Len(interleaved) \div 2
    IN  [ left  |-> [i \in 1 .. num_frames |-> interleaved[2 * i - 1]],
          right |-> [i \in 1 .. num_frames |-> interleaved[2 * i]] ]

\* encode_samples: the call made on lame_encode_buffer (the samples the codec
\* reads are the first num_samples_per_channel of each channel pointer), and
\* output_data afterwards, as segments of "mp3" bytes and "scratch" bytes
encode_samples(ctx, samples, output_data, bytes_written, by) ==
    LET split == deinterleave_samples(samples)
        left_samples == IF ctx.num_channels = 2 THEN split.left ELSE << >>
        left_channel == IF ctx.num_channels = 2 THEN split.left ELSE samples
        right_channel == IF ctx.num_channels = 2 THEN split.right ELSE << >>
        num_samples_per_channel == Len(left_samples)
        mp3buf_size == (5 * num_samples_per_channel) \div 4 + Mp3FlushBytes
        call == [ fn                      |-> "lame_encode_buffer",
                  by                      |-> by,
                  num_channels            |-> ctx.num_channels,
                  samples                 |-> samples,
                  num_samples_per_channel |-> num_samples_per_channel,
                  left                    |-> SubSeq(left_channel, 1, num_samples_per_channel),
                  right                   |-> SubSeq(right_channel, 1, num_samples_per_channel),
                  bytes_written           |-> bytes_written ]
    IN  IF bytes_written < 0
        THEN [ threw       |-> TRUE,
               call        |-> call,
               output_data |-> Append(output_data, [kind |-> "scratch", size |-> mp3buf_size]) ]
        ELSE [ threw       |-> FALSE,
               call        |-> call,
               output_data |-> IF bytes_written = 0 THEN output_data
                               ELSE Append(output_data,
                                           [kind |-> "mp3", size |-> bytes_written]) ]

\* what the j-th lame_encode_buffer call of one operation returns
LameResult(outcome, j) == IF j = outcome.fail_at THEN LAME_GENERICERROR ELSE outcome.bytes

\* mutant: a frame is encoded and erased without being counted
EncodeFrameUncounted(st, outcome, j) ==
    LET samples_per_frame == Mp3FrameSamples * st.ctx.num_channels
        frame_samples == SubSeq(st.ctx.buffer, 1, samples_per_frame)
        e == encode_samples(st.ctx, frame_samples, st.output_data, LameResult(outcome, j),
                            "buffer_and_encode_samples")
    IN  IF e.threw
        THEN [st EXCEPT !.output_data = e.output_data, !.codec = Append(@, e.call),
                        !.threw = TRUE]
        ELSE [ ctx |-> [st.ctx EXCEPT
                          !.buffer = SubSeq(@, samples_per_frame + 1, Len(@)),
                          !.buffer_start_position = @ + samples_per_frame],
               output_data |-> e.output_data,
               codec       |-> Append(st.codec, e.call),
               threw       |-> FALSE ]

\* buffer_and_encode_samples, one turn of the loop: st is the context, the
\* output vector, the calls on the codec so far and whether the call threw
EncodeFrame(st, outcome, j) ==
    LET samples_per_frame == Mp3FrameSamples * st.ctx.num_channels
        frame_samples == SubSeq(st.ctx.buffer, 1, samples_per_frame)
        e == encode_samples(st.ctx, frame_samples, st.output_data, LameResult(outcome, j),
                            "buffer_and_encode_samples")
    IN  IF e.threw
        THEN [st EXCEPT !.output_data = e.output_data, !.codec = Append(@, e.call),
                        !.threw = TRUE]
        ELSE [ ctx |-> [st.ctx EXCEPT
                          !.buffer = SubSeq(@, samples_per_frame + 1, Len(@)),
                          !.buffer_start_position = @ + samples_per_frame,
                          !.total_samples_encoded = @ + samples_per_frame],
               output_data |-> e.output_data,
               codec       |-> Append(st.codec, e.call),
               threw       |-> FALSE ]

RECURSIVE EncodeFrames(_, _, _)
EncodeFrames(st, outcome, j) ==
    IF ~st.threw /\ Len(st.ctx.buffer) >= Mp3FrameSamples * st.ctx.num_channels
    THEN EncodeFrames(EncodeFrame(st, outcome, j), outcome, j + 1)
    ELSE st

EncodeAtMostOneFrame(st, outcome) ==
    IF Len(st.ctx.buffer) >= Mp3FrameSamples * st.ctx.num_channels
    THEN EncodeFrame(st, outcome, 1)
    ELSE st
\* buffer_and_encode_samples: the loop "while a complete frame is buffered"
EncodeCompleteFrames(st, outcome) == EncodeFrames(st, outcome, 1)

\* ghost: the record of the call just made on the context
EncoderCall(op, threw) ==
    [ op              |-> op,
      result          |-> IF threw THEN "threw" ELSE "returned",
      buffer_before   |-> enc.ctx.buffer,
      codec_before    |-> Len(enc.codec),
      appended_before |-> enc.appended ]

ReturnWithoutEncoder(op) ==
    [enc EXCEPT !.ops = Append(@, op), !.last = EncoderCall(op, FALSE)]
\* "if (!ctx.encoder) throw": the call ends before it touches the context or
\* the output vector
ThrowWithoutEncoder(op) ==
    [enc EXCEPT !.ops = Append(@, op), !.last = EncoderCall(op, TRUE)]

\* the samples of the next sample_count stream positions
NextSamples(sample_count) == [i \in 1 .. sample_count |-> enc.appended + i]

\* initialize_mp3_encoder; lame_init may return null and lame_init_params may
\* fail, and both throw
InitializeMp3Encoder(sample_rate, num_channels, lame) ==
    /\ Len(enc.ops) < MaxEncoderOps
    /\ ~enc.ctx.encoder
    /\ enc' = [enc EXCEPT
                 !.ctx = [@ EXCEPT !.sample_rate = sample_rate,
                                   !.num_channels = num_channels,
                                   !.encoder = (lame # "lame_init failed")],
                 !.initialised = (lame = "ok"),
                 !.ops = Append(@, "initialize_mp3_encoder"),
                 !.last = EncoderCall("initialize_mp3_encoder", lame # "ok")]
    /\ UNCHANGED <<contexts, hist, wr, rd, micVars, ts, stream_ctx_mu_>>

\* buffer_and_encode_samples(ctx, samples, sample_count, chunk_start_position, output_data)
BufferAndEncodeSamples(sample_count, chunk_start_position, outcome) ==
    /\ Len(enc.ops) < MaxEncoderOps
    /\ IF ~enc.ctx.encoder
       THEN enc' = ThrowWithoutEncoder("buffer_and_encode_samples")
       ELSE LET samples == NextSamples(sample_count)
                ctx == [enc.ctx EXCEPT
                          !.buffer_start_position =
                              IF enc.ctx.buffer = << >> THEN chunk_start_position ELSE @,
                          !.buffer = @ \o samples]
                st == EncodeCompleteFrames([ctx |-> ctx, output_data |-> enc.output_data,
                                            codec |-> enc.codec, threw |-> FALSE], outcome)
            IN  enc' = [enc EXCEPT
                          !.ctx = st.ctx,
                          !.output_data = st.output_data,
                          !.codec = st.codec,
                          !.appended = @ + sample_count,
                          !.ops = Append(@, "buffer_and_encode_samples"),
                          !.last = EncoderCall("buffer_and_encode_samples", st.threw)]
    /\ UNCHANGED <<contexts, hist, wr, rd, micVars, ts, stream_ctx_mu_>>

\* flush_mp3_encoder(ctx, output_data)
FlushMp3Encoder(outcome, flushed_bytes) ==
    /\ Len(enc.ops) < MaxEncoderOps
    /\ IF ~enc.ctx.encoder
       THEN enc' = ThrowWithoutEncoder("flush_mp3_encoder")
       ELSE LET e == encode_samples(enc.ctx, enc.ctx.buffer, enc.output_data,
                                    LameResult(outcome, 1), "flush_mp3_encoder")
                encoded == enc.ctx.buffer # << >>
                codec == IF encoded THEN Append(enc.codec, e.call) ELSE enc.codec
                output_data == IF encoded THEN e.output_data ELSE enc.output_data
            IN  IF encoded /\ e.threw
                THEN enc' = [enc EXCEPT
                               !.output_data = output_data,
                               !.codec = codec,
                               !.ops = Append(@, "flush_mp3_encoder"),
                               !.last = EncoderCall("flush_mp3_encoder", TRUE)]
                ELSE enc' = [enc EXCEPT
                               !.ctx = [@ EXCEPT !.buffer = << >>],
                               !.output_data =
                                   IF flushed_bytes > 0
                                   THEN Append(output_data,
                                               [kind |-> "mp3", size |-> flushed_bytes])
                                   ELSE output_data,
                               !.codec = Append(codec, [fn |-> "lame_encode_flush",
                                                        by |-> "flush_mp3_encoder",
                                                        bytes_written |-> flushed_bytes]),
                               !.ops = Append(@, "flush_mp3_encoder"),
                               !.last = EncoderCall("flush_mp3_encoder", flushed_bytes < 0)]
    /\ UNCHANGED <<contexts, hist, wr, rd, micVars, ts, stream_ctx_mu_>>

\* cleanup_mp3_encoder
CleanupMp3Encoder ==
    /\ Len(enc.ops) < MaxEncoderOps
    /\ enc' = [enc EXCEPT !.ctx = NewEncoderContext,
                          !.initialised = FALSE,
                          !.ops = Append(@, "cleanup_mp3_encoder"),
                          !.last = EncoderCall("cleanup_mp3_encoder", FALSE)]
    /\ UNCHANGED <<contexts, hist, wr, rd, micVars, ts, stream_ctx_mu_>>

InitMp3 ==
    /\ contexts = << >>
    /\ hist = << >>
    /\ wr = WriterIdle
    /\ rd = [r \in Readers |-> ReaderIdle]
    /\ InitMicNone
    /\ ts = TimestampNone
    /\ enc = [ ctx         |-> NewEncoderContext,
               initialised |-> FALSE,
               output_data |-> << >>,
               codec       |-> << >>,
               appended    |-> 0,
               ops         |-> << >>,
               last        |-> NoEncoderCall ]
    /\ stream_ctx_mu_ = Unlocked

NextMp3 ==
    \/ \E num_channels \in Mp3Channels, lame \in LameInitOutcomes :
          InitializeMp3Encoder(Mp3SampleRate, num_channels, lame)
    \/ \E sample_count \in EncodeCounts, outcome \in CodecOutcomes :
          BufferAndEncodeSamples(sample_count, enc.appended, outcome)
    \/ \E outcome \in CodecOutcomes, flushed_bytes \in FlushResults :
          FlushMp3Encoder(outcome, flushed_bytes)
    \/ CleanupMp3Encoder

SpecMp3 == InitMp3 /\ [][NextMp3]_vars

(***************************************************************************)
(* SpecDeinterleave: deinterleave_samples on the inputs of up to           *)
(* MaxInterleaved samples                                                  *)
(***************************************************************************)
\* the sequences of n samples
SampleSequences(n) == [1 .. n -> InterleavedSamples]

InitDeinterleave ==
    /\ contexts = << >>
    /\ hist = << >>
    /\ wr = WriterIdle
    /\ rd = [r \in Readers |-> ReaderIdle]
    /\ InitMicNone
    /\ ts = TimestampNone
    /\ \E n \in 0 .. MaxInterleaved : \E interleaved \in SampleSequences(n) :
          enc = [pc |-> "input", interleaved |-> interleaved,
                 left |-> << >>, right |-> << >>]
    /\ stream_ctx_mu_ = Unlocked

\* one call deinterleave_samples(interleaved, left, right)
DeinterleaveSamples ==
    /\ enc.pc = "input"
    /\ enc' = [enc EXCEPT !.pc = "done",
                          !.left = deinterleave_samples(enc.interleaved).left,
                          !.right = deinterleave_samples(enc.interleaved).right]
    /\ UNCHANGED <<contexts, hist, wr, rd, micVars, ts, stream_ctx_mu_>>

NextDeinterleave == DeinterleaveSamples

SpecDeinterleave == InitDeinterleave /\ [][NextDeinterleave]_vars

(***************************************************************************)
(* Frame accumulator                                                       *)
(***************************************************************************)
\* the latest call on the encoder context was op, on a context with an encoder,
\* and it returned
EncoderReturned(op) ==
    /\ enc.last.op = op
    /\ enc.last.result = "returned"
    /\ enc.ctx.encoder

\* the codec calls made by the latest call on the context
LatestCodecCalls == SubSeq(enc.codec, enc.last.codec_before + 1, Len(enc.codec))

\* C18: after every call of buffer_and_encode_samples that returns, on a context
\* with an encoder, for every sample_count >= 0 and every prior state, the
\* pending buffer holds fewer than 1152 x num_channels samples, and one frame
\* was encoded for each complete frame of the samples pending and appended
C18_FrameAccumulator ==
    EncoderReturned("buffer_and_encode_samples") =>
        /\ Len(enc.ctx.buffer) < Mp3FrameSamples * enc.ctx.num_channels
        /\ Len(LatestCodecCalls) =
              (Len(enc.last.buffer_before) + enc.appended - enc.last.appended_before)
                  \div (Mp3FrameSamples * enc.ctx.num_channels)

\* a call that found samples pending, encoded two frames and left a remainder
C18_Witness ==
    /\ EncoderReturned("buffer_and_encode_samples")
    /\ enc.last.buffer_before # << >>
    /\ Len(LatestCodecCalls) >= 2
    /\ enc.ctx.buffer # << >>

\* the samples of one lame_encode_buffer call, as the codec reads them, in
\* arrival order (stereo: left and right interleaved again)
Handed(call) ==
    IF call.num_channels = 2
    THEN [i \in 1 .. 2 * call.num_samples_per_channel |->
             IF i % 2 = 1 THEN call.left[(i + 1) \div 2] ELSE call.right[i \div 2]]
    ELSE call.left

\* the samples handed to the codec by the successful block-encode calls of
\* buffer_and_encode_samples among calls, in call order
RECURSIVE HandedByAccumulator(_)
HandedByAccumulator(calls) ==
    IF calls = << >> THEN << >>
    ELSE LET call == calls[Len(calls)]
         IN  HandedByAccumulator(SubSeq(calls, 1, Len(calls) - 1)) \o
                 (IF /\ call.fn = "lame_encode_buffer"
                     /\ call.by = "buffer_and_encode_samples"
                     /\ call.bytes_written >= 0
                  THEN Handed(call) ELSE << >>)

\* a block-encode call of buffer_and_encode_samples is handed 1152 samples per
\* channel: the frame taken from the front of the pending buffer, in order
FrameHandedOff(call) ==
    (call.fn = "lame_encode_buffer" /\ call.by = "buffer_and_encode_samples") =>
        /\ call.num_samples_per_channel = Mp3FrameSamples
        /\ Len(call.samples) = Mp3FrameSamples * call.num_channels
        /\ Handed(call) = call.samples

\* only initialize_mp3_encoder and buffer_and_encode_samples were called
OnlyAccumulated ==
    \A k \in 1 .. Len(enc.ops) :
        enc.ops[k] \in {"initialize_mp3_encoder", "buffer_and_encode_samples"}

\* the samples handed to the codec so far, followed by the pending ones, are
\* the appended samples, each once and in arrival order
NoSampleTwiceOrSkipped ==
    HandedByAccumulator(enc.codec) \o enc.ctx.buffer = [i \in 1 .. enc.appended |-> i]

\* C19: every block-encode call made by buffer_and_encode_samples is handed
\* exactly 1152 samples per channel, the oldest pending frame in arrival
\* order, in mono and in stereo; across calls no appended sample is handed to
\* the codec twice or skipped
C19_FrameHandOff ==
    /\ \A k \in 1 .. Len(enc.codec) : FrameHandedOff(enc.codec[k])
    /\ OnlyAccumulated => NoSampleTwiceOrSkipped

\* the same for the calls made on a stereo context
StereoFrameHandOff ==
    /\ \A k \in 1 .. Len(enc.codec) :
          enc.codec[k].fn = "lame_encode_buffer" =>
              (enc.codec[k].num_channels = 2 => FrameHandedOff(enc.codec[k]))
    /\ (OnlyAccumulated /\ enc.ctx.num_channels = 2) => NoSampleTwiceOrSkipped

\* a stereo call has encoded two frames, handed off as claimed
StereoFrameHandOffReached ==
    /\ EncoderReturned("buffer_and_encode_samples")
    /\ OnlyAccumulated
    /\ enc.ctx.num_channels = 2
    /\ Len(HandedByAccumulator(enc.codec)) >= 2 * 2 * Mp3FrameSamples

(***************************************************************************)
(* Flush                                                                   *)
(***************************************************************************)
\* the pending samples were whole sample frames (one sample per channel)
WholeFramesPending(pending) == Len(pending) % enc.ctx.num_channels = 0

\* the codec calls of a flush that found pending: one block-encode call handed
\* the pending samples, then lame_encode_flush; of one that found none: only
\* lame_encode_flush
FlushHandsPendingOnce(pending) ==
    IF pending = << >>
    THEN /\ Len(LatestCodecCalls) = 1
         /\ LatestCodecCalls[1].fn = "lame_encode_flush"
    ELSE /\ Len(LatestCodecCalls) = 2
         /\ LatestCodecCalls[1].fn = "lame_encode_buffer"
         /\ Handed(LatestCodecCalls[1]) = pending
         /\ LatestCodecCalls[2].fn = "lame_encode_flush"

\* C20: after flush_mp3_encoder has returned, on a context with an encoder, the
\* pending buffer is empty whatever it held before, and a non-empty partial
\* frame (whole sample frames) was handed to the codec exactly once, before
\* lame_encode_flush drained the codec's internal buffers
C20_Flush ==
    EncoderReturned("flush_mp3_encoder") =>
        /\ enc.ctx.buffer = << >>
        /\ WholeFramesPending(enc.last.buffer_before) =>
              FlushHandsPendingOnce(enc.last.buffer_before)

\* after a flush that returned the pending buffer is empty
FlushEmptiesBuffer ==
    EncoderReturned("flush_mp3_encoder") => enc.ctx.buffer = << >>

\* on a stereo context the partial frame is handed over as claimed
StereoFlush ==
    (EncoderReturned("flush_mp3_encoder") /\ enc.ctx.num_channels = 2) =>
        (WholeFramesPending(enc.last.buffer_before) =>
            FlushHandsPendingOnce(enc.last.buffer_before))

\* a flush of a stereo context that found a partial frame pending has returned
StereoFlushReached ==
    /\ EncoderReturned("flush_mp3_encoder")
    /\ enc.ctx.num_channels = 2
    /\ enc.last.buffer_before # << >>
    /\ WholeFramesPending(enc.last.buffer_before)

(***************************************************************************)
(* Errors of the encoder                                                   *)
(***************************************************************************)
\* this step is a call of buffer_and_encode_samples or of flush_mp3_encoder
EncodeOrFlushStep ==
    /\ Len(enc'.ops) = Len(enc.ops) + 1
    /\ enc'.last.op \in {"buffer_and_encode_samples", "flush_mp3_encoder"}

\* C21: buffer_and_encode_samples and flush_mp3_encoder called on a context
\* without encoder (never initialised, or cleaned up) fail with an error and
\* leave the pending buffer, buffer_start_position, total_samples_encoded and
\* the output vector unchanged (and make no call on the codec)
C21_UninitialisedEncoder ==
    [][(EncodeOrFlushStep /\ ~enc.ctx.encoder) =>
          /\ enc'.last.result = "threw"
          /\ enc'.ctx = enc.ctx
          /\ enc'.output_data = enc.output_data
          /\ enc'.codec = enc.codec
          /\ enc'.appended = enc.appended]_vars

\* buffer_and_encode_samples has failed on a context that was cleaned up after
\* it had produced output
C21_Witness ==
    /\ ~enc.ctx.encoder
    /\ enc.last.op = "buffer_and_encode_samples"
    /\ enc.last.result = "threw"
    /\ \E k \in 1 .. Len(enc.ops) : enc.ops[k] = "cleanup_mp3_encoder"
    /\ enc.output_data # << >>

\* the latest call on the context made a block-encode call that returned a
\* negative code
CodecErrorInLatestCall ==
    /\ enc.last.op \in {"buffer_and_encode_samples", "flush_mp3_encoder"}
    /\ \E k \in 1 .. Len(LatestCodecCalls) :
          /\ LatestCodecCalls[k].fn = "lame_encode_buffer"
          /\ LatestCodecCalls[k].bytes_written < 0

\* the output vector holds only bytes that codec calls have produced
NoScratchInOutput ==
    \A k \in 1 .. Len(enc.output_data) : enc.output_data[k].kind = "mp3"

\* C22: when the block-encode primitive returns a negative code during
\* buffer_and_encode_samples or flush_mp3_encoder, the call fails with an
\* error, and the output vector holds nothing but the bytes it held before and
\* the bytes produced by successful codec calls: no unwritten scratch space
C22_CodecError ==
    CodecErrorInLatestCall =>
        /\ enc.last.result = "threw"
        /\ NoScratchInOutput

\* a negative code of the block-encode primitive ends the call with an error,
\* and the frame it was handed stays pending
CodecErrorThrows ==
    CodecErrorInLatestCall =>
        /\ enc.last.result = "threw"
        /\ enc.ctx.buffer # << >>

CodecErrorThrowsReached ==
    /\ CodecErrorInLatestCall
    /\ enc.last.op = "flush_mp3_encoder"

(***************************************************************************)
(* Reconfigure with the running configuration                              *)
(***************************************************************************)
\* this step is a reconfigure that succeeds, called with the configuration
\* the component is running with
SameConfigReconfigure ==
    \E params \in StreamParams :
        /\ DeviceFields(params) = device
        /\ stream_.running
        /\ Reconfigure(params, "ok")

\* C23: reconfigure with a configuration identical to the running one (device
\* name, sample rate, channel count, latency) does not stop, close, reopen or
\* restart the device stream and leaves the configuration fields unchanged
C23_NoOpReconfigure ==
    [][SameConfigReconfigure => (stream_' = stream_ /\ device' = device)]_vars

\* the configuration fields are the same after such a reconfigure
SameConfigKeepsFields ==
    [][SameConfigReconfigure => device' = device]_vars

\* a reconfigure has run and the configuration is the one of construction
SameConfigReconfigured ==
    /\ reconf = 1
    /\ stream_.running
    /\ audio_context_ = 2
    /\ contexts[1].info = contexts[2].info

(***************************************************************************)
(* Independence of the sessions of one device (SpecShared)                 *)
(***************************************************************************)
\* a step of another session leaves alone what session s has, what it has
\* delivered and everything it reads
OtherSessionsLeaveAlone ==
    \A s \in SharedSessions : \A t \in SharedSessions \ {s} :
        SessionStep(t) =>
            /\ sess'[s] = sess[s]
            /\ delivered'[s] = delivered[s]
            /\ UNCHANGED <<contexts, hist, wr, device, audio_context_, stream_>>

\* every chunk a session has delivered is given by its place in the session,
\* the context it was read from and the session's own cursor: the k-th chunk
\* carries sequence number k - 1, the samples [start, start + chunk_size) of
\* its context, their timestamps and the context's audio_info
ChunkFromOwnCursor ==
    \A s \in SharedSessions : \A k \in 1 .. Len(delivered[s]) :
        LET c   == delivered[s][k]
            ctx == contexts[c.context]
        IN  /\ c.sequence_number = k - 1
            /\ c.audio_data = CapturedRange(c.context, c.start, c.chunk_size)
            /\ c.start_timestamp_ns
                 = calculate_sample_timestamp(ctx, Limbs(c.start, U64Limbs))
            /\ c.end_timestamp_ns
                 = calculate_sample_timestamp(ctx, Limbs(c.start + c.chunk_size, U64Limbs))
            /\ c.sample_rate_hz = ctx.info.sample_rate_hz
            /\ c.num_channels = ctx.info.num_channels
            /\ k > 1 => c.start = delivered[s][k - 1].start + delivered[s][k - 1].chunk_size

\* C24: the chunks (sample data, timestamps, sequence numbers) one get_audio
\* session delivers do not depend on the other sessions of the device: a step
\* of another session, whatever its speed, its handler's answer or its
\* cancellation, changes nothing the session has or reads, and every chunk is
\* given by the session's own cursor and context, whatever active_streams_ is
C24_ConsumerIndependence ==
    /\ [][OtherSessionsLeaveAlone]_vars
    /\ []ChunkFromOwnCursor

\* two sessions have delivered, one of them was cancelled by its handler and
\* the other one runs on and has delivered more
C24_Witness ==
    /\ sess[2].outcome = "stopped"
    /\ Len(delivered[2]) = 1
    /\ sess[1].pc # "idle"
    /\ Len(delivered[1]) = 2
    /\ delivered[1][1].start = delivered[2][1].start

(***************************************************************************)
(* Conservation between one producer and one consumer (SpecDrain)          *)
(***************************************************************************)
\* the buffers the consumer's reads have returned, one after the other
RECURSIVE ReadSoFar(_)
ReadSoFar(buffers) ==
    IF buffers = << >> THEN << >>
    ELSE ReadSoFar(SubSeq(buffers, 1, Len(buffers) - 1)) \o buffers[Len(buffers)]

\* the producer has stopped and the consumer has left its loop
ConsumerDrained == sess[DrainReader].pc = "joined"

\* C25: one producer writes N <= capacity samples, one consumer repeatedly
\* reads min(available, k) samples at its cursor while the producer runs; once
\* the producer has stopped and the consumer has drained, the consumer has
\* read N samples in total, each index once and in write order, for every
\* interleaving
C25_Conservation ==
    ConsumerDrained =>
        /\ sess[DrainReader].read_total = sess[DrainReader].total_samples
        /\ ReadSoFar(delivered[DrainReader]) = hist[RingCtx]
        /\ Len(hist[RingCtx]) = sess[DrainReader].total_samples

\* the consumer has drained a full buffer in at least two reads, the first of
\* them before the producer had finished
C25_Witness ==
    /\ ConsumerDrained
    /\ sess[DrainReader].total_samples = contexts[RingCtx].buffer_capacity
    /\ Len(delivered[DrainReader]) >= 2
    /\ Len(delivered[DrainReader][1]) = 1

(***************************************************************************)
(* Lock discipline (SpecLock)                                              *)
(***************************************************************************)
\* this step stops and closes, or opens and starts, the device stream
DeviceStreamStep ==
    \/ stream_'.running # stream_.running
    \/ stream_'.user_data # stream_.user_data

\* this step is a poll sleep, a read or a handler invocation of a session
SleepOrHandlerStep == \E s \in Sessions : UnlockedSessionStep(s)

\* this step belongs to the real-time callback
CallbackStep == wr' # wr

\* C26: stream_ctx_mu_ is held for pointer and field reads and swaps only: it
\* is not held while a device stream is stopped, closed, opened or started,
\* nor during a poll sleep or a handler invocation of the thread holding it,
\* and the real-time callback never acquires it
C26_LockDiscipline ==
    /\ [][DeviceStreamStep => stream_ctx_mu_ = Unlocked]_vars
    /\ [][SleepOrHandlerStep => stream_ctx_mu_ \in {Unlocked, ReconfigureThread}]_vars
    /\ [][CallbackStep => stream_ctx_mu_' = stream_ctx_mu_]_vars

\* get_audio and the callback keep to the discipline
SessionsAndCallbackKeepDiscipline ==
    /\ [][SleepOrHandlerStep => stream_ctx_mu_ \in {Unlocked, ReconfigureThread}]_vars
    /\ [][CallbackStep => stream_ctx_mu_' = stream_ctx_mu_]_vars

\* the callback writes and a session is in its loop while reconfigure holds
\* the mutex
LockHeldWhileOthersRun ==
    /\ stream_ctx_mu_ = ReconfigureThread
    /\ wr.pending # << >>
    /\ \E s \in Sessions : sess[s].pc = "poll"

(***************************************************************************)
(* The anchor of a context (SpecAnchor)                                    *)
(***************************************************************************)
\* a step leaves the anchor of a context that has first_callback_captured alone
AnchorKept ==
    contexts[AnchorCtx].first_callback_captured =>
        /\ contexts'[AnchorCtx].stream_start_time = contexts[AnchorCtx].stream_start_time
        /\ contexts'[AnchorCtx].first_sample_adc_time
             = contexts[AnchorCtx].first_sample_adc_time
        /\ contexts'[AnchorCtx].first_callback_captured

\* C27: over any number of AudioCallback invocations on one context, two
\* overlapping invocations included, stream_start_time and
\* first_sample_adc_time are assigned exactly once, by the first callback that
\* carries input, and never change once first_callback_captured is true
C27_OneShotAnchor ==
    /\ [](wr.assignments <= 1)
    /\ [](contexts[AnchorCtx].first_callback_captured => wr.assignments = 1)
    /\ [][AnchorKept]_vars

\* as long as no two invocations have overlapped, the anchor is assigned once
\* and kept
AnchorOnceWithoutOverlap ==
    /\ [](~wr.overlapped => wr.assignments <= 1)
    /\ [](~wr.overlapped =>
            (contexts[AnchorCtx].first_callback_captured => wr.assignments = 1))
    /\ [][~wr'.overlapped => AnchorKept]_vars

\* three invocations, one after the other, have run
AnchorOnceWithoutOverlapReached ==
    /\ ~wr.overlapped
    /\ wr.started = MaxInvocations
    /\ Len(hist[AnchorCtx]) = MaxInvocations

(***************************************************************************)
(* Lifetime of a superseded context (Spec)                                 *)
(***************************************************************************)
\* session s is past the context check of its loop and reads the context it
\* is bound to: get_write_position, read_samples, the chunk's timestamps
ReadsBoundContext(s) == sess[s].pc \in {"available", "read", "copy", "deliver"}

RECURSIVE HandedCount(_)
HandedCount(calls) ==
    IF calls = << >> THEN 0
    ELSE LET call == calls[Len(calls)]
         IN  HandedCount(SubSeq(calls, 1, Len(calls) - 1)) +
                 (IF call.fn = "lame_encode_buffer" /\ call.bytes_written >= 0
                  THEN Len(Handed(call)) ELSE 0)

\* the context has an encoder and has never been cleaned up
NeverCleanedUp ==
    /\ enc.ctx.encoder
    /\ \A k \in 1 .. Len(enc.ops) : enc.ops[k] # "cleanup_mp3_encoder"

\* C29: after any sequence of buffer_and_encode_samples and flush_mp3_encoder
\* calls on an initialised context (here: a stereo one), total_samples_encoded
\* is the number of samples handed to the codec so far, the partial frame
\* encoded by a flush included
C29_TotalSamplesEncoded ==
    (NeverCleanedUp /\ enc.ctx.num_channels = 2) =>
        enc.ctx.total_samples_encoded = HandedCount(enc.codec)

\* it is that number on a stereo context as long as no flush has handed a
\* partial frame to the codec
TotalCountsFramesOnly ==
    (NeverCleanedUp /\ enc.ctx.num_channels = 2 /\ OnlyAccumulated) =>
        enc.ctx.total_samples_encoded = HandedCount(enc.codec)

TotalCountsFramesOnlyReached ==
    /\ NeverCleanedUp
    /\ enc.ctx.num_channels = 2
    /\ OnlyAccumulated
    /\ enc.ctx.total_samples_encoded = 2 * 2 * Mp3FrameSamples

(***************************************************************************)
(* Deinterleaving (SpecDeinterleave)                                       *)
(***************************************************************************)
\* left and right sample by sample in turn
Reinterleave(left, right) ==
    [i \in 1 .. 2 * Len(left) |->
        IF i % 2 = 1 THEN left[(i + 1) \div 2] ELSE right[i \div 2]]

\* C30: for every interleaved input of even length 2n, deinterleave_samples
\* yields left and right of length n with left[i] = in[2i] and
\* right[i] = in[2i + 1] for all i < n (counted from 0), so that
\* re-interleaving left and right gives the input back
C30_DeinterleaveOrder ==
    (enc.pc = "done" /\ Len(enc.interleaved) % 2 = 0) =>
        LET n == Len(enc.interleaved) \div 2
        IN  /\ Len(enc.left) = n
            /\ Len(enc.right) = n
            /\ \A i \in 0 .. n - 1 :
                  /\ enc.left[i + 1] = enc.interleaved[2 * i + 1]
                  /\ enc.right[i + 1] = enc.interleaved[2 * i + 2]
            /\ Reinterleave(enc.left, enc.right) = enc.interleaved

\* two frames whose channels differ have been split
C30_Witness ==
    /\ enc.pc = "done"
    /\ enc.interleaved = <<-32768, 0, 32767, -32768>>
    /\ enc.left = <<-32768, 32767>>
    /\ enc.right = <<0, -32768>>

(***************************************************************************)
(* SpecRebind: the component built with a rate of at least or below ten    *)
(* samples per second and reconfigured to either while a session runs     *)
(***************************************************************************)
MaxRebindChunks == 2
RebindRates == {5, 10}

RebindParams ==
    [device_name : DeviceNames, device_index : {0}, sample_rate : RebindRates,
     num_channels : {1}, latency_seconds : Latencies]

InitRebind == InitMicrophone(RebindParams)

NextRebind ==
    \/ \E params \in RebindParams, outcome \in ReconfigureOutcomes :
          Reconfigure(params, outcome)
    \/ \E frames \in FrameCounts, adc_time \in AdcTimes, now \in WallClock :
          AudioCallback(frames, adc_time, now)
    \/ WriteStore
    \/ WritePublish
    \/ \E s \in Sessions :
          \/ GetAudio(s, PCM_16, 0)
          \/ InitReadPosition(s)
          \/ InitChunkSize(s)
          \/ Poll(s)
          \/ CheckAvailable(s)
          \/ ReadChunkBegin(s)
          \/ ReadChunkCopy(s)
          \/ \E result \in BOOLEAN :
                Len(delivered[s]) < MaxRebindChunks /\ DeliverChunk(s, result)
          \/ StopSession(s)

SpecRebind == InitRebind /\ [][NextRebind]_vars

(***************************************************************************)
(* Properties of sessions across a reconfiguration (Spec, SpecRebind)      *)
(***************************************************************************)
\* a context that holds samples has its anchor
WrittenContextsAnchored ==
    \A c \in DOMAIN contexts :
        contexts[c].total_samples_written > 0 => contexts[c].first_callback_captured

\* C31: get_audio never computes a chunk timestamp from a context whose
\* anchor has not been captured: whenever a chunk is delivered from a context,
\* a callback on that context had already stored stream_start_time and set
\* first_callback_captured; every context with a positive write position has
\* its anchor.
C31_AnchorBeforeTimestamp ==
    /\ WrittenContextsAnchored
    /\ \A s \in Sessions : \A i \in ChunkIndexes(s) :
          contexts[Chunks(s)[i].context].first_callback_captured

\* the get_audio calls in progress
SessionsInProgress == {s \in Sessions : InGetAudio(s)}

\* C32: active_streams_ equals the number of get_audio calls in progress:
\* every call that incremented it decrements it exactly once on every way of
\* leaving, a configuration error raised included, so it is never negative
\* and is 0 again when every session has ended.
C32_ActiveStreamsCount ==
    /\ active_streams_ = Cardinality(SessionsInProgress)
    /\ active_streams_ >= 0

\* what the code keeps: the counter is never below the number of calls in
\* progress
ActiveStreamsCoversSessions ==
    active_streams_ >= Cardinality(SessionsInProgress)

(***************************************************************************)
(* Lifetime of the context of the device stream (SpecLock)                 *)
(***************************************************************************)
\* a callback is writing into context wr.ctx
CallbackWriting == wr # WriterIdle

\* C33: the callback never writes into a destroyed context: a context is kept
\* alive as long as a device stream whose callback received it as user data
\* can still invoke the callback, in particular during reconfigure, where
\* the old context outlives the stopping of the old stream even when no
\* consumer holds a reference.
C33_CallbackContextAlive ==
    /\ stream_.running => ContextAlive(stream_.user_data)
    /\ CallbackWriting => ContextAlive(wr.ctx)

\* what the code keeps: outside reconfigure the running stream's context is
\* audio_context_
StreamContextLiveWhenUnlocked ==
    (stream_ctx_mu_ = Unlocked /\ stream_.running)
        => stream_.user_data = audio_context_

(***************************************************************************)
(* SpecFormat: the component built with and reconfigured to any of four    *)
(* formats while a session runs                                            *)
(***************************************************************************)
FormatCaptured == 4
FormatChannels == {1, 2}

FormatParams ==
    [device_name : DeviceNames, device_index : {0}, sample_rate : SampleRates,
     num_channels : FormatChannels, latency_seconds : Latencies]

InitFormat == InitMicrophone(FormatParams)

NextFormat ==
    \/ \E params \in FormatParams, outcome \in ReconfigureOutcomes :
          Reconfigure(params, outcome)
    \/ \E frames \in FrameCounts, adc_time \in AdcTimes, now \in WallClock :
          AudioCallbackWithin(FormatCaptured, frames, adc_time, now)
    \/ WriteStore
    \/ WritePublish
    \/ \E s \in Sessions :
          \/ GetAudio(s, PCM_16, 0)
          \/ InitReadPosition(s)
          \/ InitChunkSize(s)
          \/ Poll(s)
          \/ CheckAvailable(s)
          \/ ReadChunkBegin(s)
          \/ ReadChunkCopy(s)
          \/ \E result \in BOOLEAN : DeliverChunk(s, result)
          \/ StopSession(s)

SpecFormat == InitFormat /\ [][NextFormat]_vars

\* the rate, channel count and chunk size are those of context c
FormatOf(c, sample_rate, num_channels, chunk_size) ==
    /\ sample_rate = contexts[c].info.sample_rate_hz
    /\ num_channels = contexts[c].info.num_channels
    /\ chunk_size = SamplesPerChunk(contexts[c].info.sample_rate_hz,
                                    contexts[c].info.num_channels)

\* C34: a chunk's sample_rate_hz, num_channels and chunk size are those of the
\* context its samples were read from, for every interleaving with
\* reconfigure, one that lands between the session's first read of the
\* context and its first read of the rate and channels included.
C34_ChunkFormatOfContext ==
    \A s \in Sessions : \A i \in ChunkIndexes(s) :
        /\ FormatOf(Chunks(s)[i].context, Chunks(s)[i].sample_rate_hz,
                    Chunks(s)[i].num_channels, Chunks(s)[i].chunk_size)
        /\ Len(Chunks(s)[i].audio_data) = Chunks(s)[i].chunk_size
        /\ \A j \in 1 .. Len(Chunks(s)[i].sources) :
              Chunks(s)[i].sources[j] = Chunks(s)[i].context

\* past the context check of an iteration the session's format is that of
\* the context it is bound to
SessionFormatOfContext ==
    \A s \in Sessions :
        sess[s].pc \in {"available", "read", "copy", "deliver"}
        => FormatOf(sess[s].stream_context, sess[s].stream_sample_rate,
                    sess[s].stream_num_channels, sess[s].samples_per_chunk)

\* the reconfiguration has landed between the two initial reads: the session
\* is bound to the old context and is about to read the new rate and channels
ReconfiguredBetweenInitialReads ==
    \E s \in Sessions :
        /\ sess[s].pc = "init_rate"
        /\ sess[s].stream_context = 1
        /\ audio_context_ = 2
        /\ contexts[1].info # contexts[2].info

\* a session that bound to a mono context has rebound and delivered a chunk
\* of a stereo context of another rate
C34_Witness ==
    \E s \in Sessions : \E i \in ChunkIndexes(s) :
        /\ Chunks(s)[i].context = 2
        /\ Chunks(s)[i].binds = 2
        /\ Chunks(s)[i].num_channels = 2
        /\ contexts[1].info.num_channels = 1
        /\ contexts[1].info.sample_rate_hz # Chunks(s)[i].sample_rate_hz

(***************************************************************************)
(* Frame alignment of chunks (SpecConfig)                                  *)
(***************************************************************************)
\* C35: the chunk size is a whole multiple of the channel count for every
\* rate and channel count: every chunk contains only complete frames and
\* starts at an offset from the session's start that is a multiple of
\* num_channels.
C35_WholeFrames ==
    \A s \in Sessions :
        /\ sess[s].pc \in {"poll", "available", "read", "copy", "deliver"}
           => sess[s].samples_per_chunk % sess[s].stream_num_channels = 0
        /\ \A k \in ChunkIndexes(s) :
              /\ Len(Chunks(s)[k].audio_data) % Chunks(s)[k].num_channels = 0
              /\ (Chunks(s)[k].start - Chunks(s)[k].bind_position)
                    % Chunks(s)[k].num_channels = 0

\* what the code keeps: chunks of a session follow each other at whole
\* multiples of its chunk size
ChunkOffsetsMultipleOfChunkSize ==
    \A s \in Sessions : \A k \in ChunkIndexes(s) :
        (Chunks(s)[k].start - Chunks(s)[k].bind_position) % Chunks(s)[k].chunk_size = 0

(***************************************************************************)
(* Positive chunk size (SpecRebind)                                        *)
(***************************************************************************)
\* the step is an iteration of the loop of session s that neither sleeps nor
\* hands a chunk with samples to the handler
EmptyIteration(s) ==
    /\ Delivers(s)
    /\ Len(delivered'[s][Len(delivered'[s])].audio_data) = 0

\* C36: the chunk size in use is positive at every wait check and at every
\* delivery, also after a reconfiguration in the middle of a session:
\* get_audio never hands an empty chunk to the handler and never goes round
\* its loop without sleeping or delivering a chunk with samples.
C36_PositiveChunkSize ==
    /\ [](\A s \in Sessions :
            /\ sess[s].pc \in {"available", "read", "copy", "deliver"}
               => sess[s].samples_per_chunk > 0
            /\ \A k \in ChunkIndexes(s) :
                  /\ Chunks(s)[k].chunk_size > 0
                  /\ Len(Chunks(s)[k].audio_data) > 0)
    /\ [][\A s \in Sessions : ~EmptyIteration(s)]_vars

\* what the code keeps: a session that has not rebound has a positive chunk
\* size
PositiveUntilRebind ==
    \A s \in Sessions :
        (sess[s].pc \in {"available", "read", "copy", "deliver"} /\ sess[s].binds <= 1)
        => sess[s].samples_per_chunk > 0

(***************************************************************************)
(* Order of timestamps (SpecTimestamp)                                     *)
(***************************************************************************)
RECURSIVE LimbsLeqFrom(_, _, _)
LimbsLeqFrom(a, b, i) ==
    IF i = 0 THEN TRUE
    ELSE IF a[i] # b[i] THEN a[i] < b[i]
    ELSE LimbsLeqFrom(a, b, i - 1)

\* a <= b for two numbers of the same width
LimbsLeq(a, b) == LimbsLeqFrom(a, b, Len(a))

\* C37: calculate_sample_timestamp is non-decreasing in the sample index for
\* every pair of uint64 indices a <= b, so a later chunk never carries an
\* earlier timestamp and start_timestamp <= end_timestamp.
C37_TimestampMonotone ==
    TimestampCalculated =>
        \A later \in TimestampSamples :
            LimbsLeq(ts.sample_number, later)
            => LimbsLeq(ts.timestamp,
                        calculate_sample_timestamp(contexts[TimestampCtx], later))

\* what the code keeps: the order holds among the indices whose product
\* with 10^9 fits a uint64_t
MonotoneWithoutWrap ==
    TimestampCalculated =>
        \A later \in TimestampSamples :
            (LimbsLeq(ts.sample_number, later) /\ ProductFits(contexts[TimestampCtx], later))
            => LimbsLeq(ts.timestamp,
                        calculate_sample_timestamp(contexts[TimestampCtx], later))

(***************************************************************************)
(* SpecLag: one consumer whose handler runs while the device delivers a    *)
(* frame at a time or, once, more than the buffer holds                    *)
(***************************************************************************)
LagExtra == 4
MaxLagChunks == 3

NextLag ==
    \/ \E adc_time \in AdcTimes, now \in WallClock :
          /\ hist[audio_context_] = << >>
          /\ AudioCallbackWithin(SlowCapacity + LagExtra, SlowFirst, adc_time, now)
    \/ \E frames \in {SlowFirst, SlowCapacity + 1}, adc_time \in AdcTimes, now \in WallClock :
          /\ \E s \in Sessions : Len(delivered[s]) >= 1
          /\ AudioCallbackWithin(SlowCapacity + LagExtra, frames, adc_time, now)
    \/ WriteStore
    \/ WritePublish
    \/ \E s \in Sessions :
          \/ hist[audio_context_] = << >> /\ GetAudio(s, PCM_16, 0)
          \/ InitReadPosition(s)
          \/ InitChunkSize(s)
          \/ Poll(s)
          \/ CheckAvailable(s)
          \* no read overlaps a callback, as in SpecSlow
          \/ wr = WriterIdle /\ ReadChunkBegin(s)
          \/ wr = WriterIdle /\ ReadChunkCopy(s)
          \/ Len(delivered[s]) < MaxLagChunks /\ DeliverChunk(s, TRUE)

SpecLag == InitSlow /\ [][NextLag]_vars

(***************************************************************************)
(* Contiguity of chunks (SpecLag)                                          *)
(***************************************************************************)
\* the chunk holds the samples of the indices it is stamped with: the writer
\* had not overwritten them before they were copied
ReadInPlace(chunk) ==
    chunk.audio_data = CapturedRange(chunk.context, chunk.start, chunk.chunk_size)

\* chunk b follows chunk a without gap or overlap
Adjacent(a, b) ==
    /\ b.context = a.context
    /\ b.start = a.start + a.chunk_size
    /\ b.start_timestamp_ns = a.end_timestamp_ns
    /\ b.audio_data = CapturedRange(a.context, a.start + a.chunk_size, b.chunk_size)

\* C38: within one session, two consecutively delivered chunks between which
\* no reconfiguration was detected cover adjacent sample ranges of the same
\* context: the later one starts at the earlier one's start index plus the
\* chunk size, and its start_timestamp is the earlier one's end_timestamp.
C38_ChunkContiguity ==
    \A s \in Sessions : \A k \in ChunkIndexes(s) :
        (k > 1 /\ Chunks(s)[k].binds = Chunks(s)[k - 1].binds)
        => Adjacent(Chunks(s)[k - 1], Chunks(s)[k])

\* C38, amended: the same, for two chunks neither of which was read with a
\* cursor that the writer had left more than the capacity behind before the
\* copy was complete
C38_ContiguityWithinCapacity ==
    \A s \in Sessions : \A k \in ChunkIndexes(s) :
        (/\ k > 1
         /\ Chunks(s)[k].binds = Chunks(s)[k - 1].binds
         /\ ReadInPlace(Chunks(s)[k - 1])
         /\ ReadInPlace(Chunks(s)[k]))
        => Adjacent(Chunks(s)[k - 1], Chunks(s)[k])

\* three chunks delivered while the consumer kept up, each following the
\* one before
C38_Witness ==
    \E s \in Sessions :
        /\ Len(Chunks(s)) = 3
        /\ \A k \in 1 .. 3 : ReadInPlace(Chunks(s)[k])
        /\ Adjacent(Chunks(s)[1], Chunks(s)[2])
        /\ Adjacent(Chunks(s)[2], Chunks(s)[3])

(***************************************************************************)
(* Conservation in the frame accumulator (SpecMp3)                         *)
(***************************************************************************)
\* the context has an encoder and only buffer_and_encode_samples was called
\* on it since initialize_mp3_encoder
AccumulatedOnly == OnlyAccumulated /\ enc.ctx.encoder

\* the latest call appended fewer samples than a frame to an empty buffer
AppendedLessThanFrameToEmpty ==
    /\ enc.last.op = "buffer_and_encode_samples"
    /\ enc.last.buffer_before = << >>
    /\ enc.appended - enc.last.appended_before < Mp3FrameSamples * enc.ctx.num_channels

\* C39: after any sequence of buffer_and_encode_samples calls on an
\* initialised context, without a flush, the number of samples appended so
\* far is total_samples_encoded plus the size of the pending buffer,
\* total_samples_encoded is a multiple of the frame size, and the pending
\* buffer is the most recently appended samples in order; appending fewer
\* samples than a frame to an empty buffer makes no encode call and buffers
\* them all.
C39_AccumulatorConservation ==
    AccumulatedOnly =>
        /\ enc.appended = enc.ctx.total_samples_encoded + Len(enc.ctx.buffer)
        /\ enc.ctx.total_samples_encoded % (Mp3FrameSamples * enc.ctx.num_channels) = 0
        /\ enc.ctx.buffer =
              [i \in 1 .. Len(enc.ctx.buffer) |-> enc.appended - Len(enc.ctx.buffer) + i]
        /\ AppendedLessThanFrameToEmpty =>
              /\ enc.last.result = "returned"
              /\ LatestCodecCalls = << >>
              /\ Len(enc.ctx.buffer) = enc.appended - enc.last.appended_before

\* three calls have accumulated: frames were encoded and a part of a frame
\* is pending
C39_Witness ==
    /\ AccumulatedOnly
    /\ Len(enc.ops) = 4
    /\ enc.ctx.total_samples_encoded > 0
    /\ enc.ctx.buffer # << >>
    /\ enc.appended = 2305 + 1151 + 1

\* fewer samples than a frame were appended to an empty buffer
LessThanFrameBuffered ==
    /\ AccumulatedOnly
    /\ AppendedLessThanFrameToEmpty
    /\ Len(enc.ctx.buffer) = 1151

(***************************************************************************)
(* SpecDeliver: an unbounded session whose handler always returns true,    *)
(* scheduled fairly, on a device that keeps delivering as long as the      *)
(* context has room in the model; reconfigure may come at any time         *)
(***************************************************************************)
\* a step of the loop of session s
LoopStep(s) ==
    \/ InitReadPosition(s)
    \/ InitChunkSize(s)
    \/ Poll(s)
    \/ CheckAvailable(s)
    \/ ReadChunkBegin(s)
    \/ ReadChunkCopy(s)
    \/ DeliverChunk(s, TRUE)

\* a step of the device stream's callback
ProducerStep ==
    \/ \E frames \in FrameCounts, adc_time \in AdcTimes, now \in WallClock :
          AudioCallback(frames, adc_time, now)
    \/ WriteStore
    \/ WritePublish

NextDeliver ==
    \/ \E params \in StreamParams, outcome \in ReconfigureOutcomes :
          Reconfigure(params, outcome)
    \/ ProducerStep
    \/ \E s \in Sessions : GetAudio(s, PCM_16, 0)
    \/ \E s \in Sessions : LoopStep(s)

SpecDeliver ==
    /\ Init
    /\ [][NextDeliver]_vars
    /\ \A s \in Sessions : WF_vars(LoopStep(s))
    /\ WF_vars(ProducerStep)

(***************************************************************************)
(* Liveness of delivery (SpecDeliver)                                      *)
(***************************************************************************)
\* no session delivers more chunks than this
MaxDelivered == (MaxReconfigures + 1) * MaxCaptured

\* session s is in its loop
InLoop(s) == sess[s].pc \in {"poll", "available", "read", "copy", "deliver"}

\* session s is in its loop, bound to the live context c, whose stream runs
\* and will still deliver a chunk's worth of samples past the session's cursor
ProducerKeepsWriting(s, c) ==
    /\ InLoop(s)
    /\ audio_context_ = c
    /\ sess[s].stream_context = c
    /\ stream_.running
    /\ stream_.user_data = c
    /\ sess[s].read_position + sess[s].samples_per_chunk <= MaxCaptured

\* session s has delivered more than n chunks, the latest from context c
DeliveredBeyond(s, n, c) ==
    /\ Len(delivered[s]) > n
    /\ LastChunk(s).context = c

\* C40: in an unbounded session whose handler keeps returning true, scheduled
\* fairly, as long as the producer of the device's current context keeps
\* writing the session delivers a further chunk; a session bound to a context
\* that a reconfiguration has superseded rebinds to the new one and, the new
\* producer writing, delivers a chunk from it: it never waits for ever on the
\* old one.
C40_DeliveryLiveness ==
    /\ \A s \in Sessions :
          (InLoop(s) /\ sess[s].stream_context # audio_context_)
              ~> (sess[s].stream_context = audio_context_)
    /\ \A s \in Sessions : \A c \in 1 .. (MaxReconfigures + 1) : \A n \in 0 .. MaxDelivered :
          (ProducerKeepsWriting(s, c) /\ Len(delivered[s]) = n)
              ~> (DeliveredBeyond(s, n, c) \/ audio_context_ # c)

\* a session that delivered a chunk from the first context has delivered one
\* from the context of a successful reconfiguration
C40_Witness ==
    \E s \in Sessions :
        /\ Len(delivered[s]) >= 2
        /\ delivered[s][1].context = 1
        /\ LastChunk(s).context = 2
        /\ audio_context_ = 2
        /\ stream_.running
        /\ stream_.user_data = 2

====
